---- MODULE Spec2Model ----
(***************************************************************************)
(* Job execution and lifecycle state machine of the deployment engine      *)
(* (src/src/environment/action/deploy_job.rs): the one-shot run loop of    *)
(* run_job, the pod selector get_active_job_pod_by_selector and the job    *)
(* status classifier, with the cluster, the chart deployer and the abort   *)
(* signal as nondeterministic collaborators.                               *)
(***************************************************************************)
EXTENDS Integers, Sequences, FiniteSets, TLC

\* ---------------------------------------------------------------- bounds

\* Largest max_nb_restart a job of the model is configured with.
MaxRestart == 1
\* Number of jobs in target.environment.jobs.
NumEnvJobs == 2
\* Number of lifecycle handlers invoked in a row on one job.
MaxInvocations == 2
\* Length of the longest kube name of a job.
MaxKubeNameLen == 66

\* ------------------------------------------------------- program constants

\* retry::delay::Fixed::from_millis(10_000): seconds between two polls.
RetryDelaySecs == 10
\* min(30, ...): ceiling of the number of delays handed to retry::retry.
MaxRetryDelays == 30
\* 63 - 14: the length limit of a resource name and the length of the suffix.
K8sNameLimit == 63
ForceTriggerSuffixLen == 14
\* ttl_seconds_after_finished = Some(10)
TtlSecondsAfterFinished == 10

\* ------------------------------------------------------------ Option<T>

\* Option<T> is a sequence of length 0 (None) or 1 (Some(x)).
None == <<>>
Some(x) == <<x>>
IsSome(o) == Len(o) = 1
Unwrap(o) == o[1]
UnwrapOr(o, d) == IF IsSome(o) THEN o[1] ELSE d

Min(a, b) == IF a <= b THEN a ELSE b

\* ------------------------------------------------------------------ pods

PodNames == {"pod-a", "pod-b", "pod-c"}
\* job.kube_name() and the sidecar that waits for the sentinel file.
JobContainer == "job"
WaitContainer == "qovery-wait-container-output"
ContainerNames == {JobContainer, WaitContainer}
\* Which field of a ContainerState is set ("none": the state itself is None).
ContainerStates == {"none", "running", "terminated"}
Phases == {"Pending", "Running", "Succeeded"}

\* str::to_lowercase on the phase strings of the model.
ToLower(s) ==
    CASE s = "Pending" -> "pending"
      [] s = "Running" -> "running"
      [] OTHER -> s

\* KubernetesPodStatusPhase::Pending.to_string()
PendingPhaseName == "Pending"

\* Pod.status: None, or a PodStatus with an optional phase and optional
\* container statuses (one ContainerStatus per container of the pod).
PodStatuses ==
    {None} \cup
    {Some([phase |-> ph, container_statuses |-> cs]) :
        ph \in {None} \cup {Some(p) : p \in Phases},
        cs \in {None} \cup {Some(f) : f \in [ContainerNames -> ContainerStates]}}

\* The pod statuses the lists of a whole run are drawn from: no status, a pod
\* waiting for a node, a pod with both containers running, a pod whose job
\* container is done and whose sidecar still waits, a pending pod that reports
\* a running container, a pod without phase, and a finished pod.
Containers(j, w) == [c \in ContainerNames |-> IF c = JobContainer THEN j ELSE w]
RunPodStatuses ==
    { None,
      Some([phase |-> Some("Pending"), container_statuses |-> None]),
      Some([phase |-> Some("Running"),
            container_statuses |-> Some(Containers("running", "running"))]),
      Some([phase |-> Some("Running"),
            container_statuses |-> Some(Containers("terminated", "running"))]),
      Some([phase |-> Some("Pending"),
            container_statuses |-> Some(Containers("none", "running"))]),
      Some([phase |-> None,
            container_statuses |-> Some(Containers("running", "none"))]),
      Some([phase |-> Some("Succeeded"),
            container_statuses |-> Some(Containers("terminated", "terminated"))]) }

\* The outcome of kube_pod_api.list: Err, or Ok with the pods (name -> status).
ListErr == [ok |-> FALSE, items |-> <<>>]
ListOk(items) == [ok |-> TRUE, items |-> items]
PodLists(names, statuses) == UNION {[S -> statuses] : S \in SUBSET names}
ListOutcomes(names, statuses) ==
    {ListErr} \cup {ListOk(l) : l \in PodLists(names, statuses)}

\* deploy_job.rs 685-693: the closure handed to any().
PodIsPending(status) ==
    IF IsSome(status) /\ IsSome(Unwrap(status).phase)
    THEN ToLower(Unwrap(Unwrap(status).phase)) = ToLower(PendingPhaseName)
    ELSE FALSE

\* deploy_job.rs 707-721: the closure handed to filter_map().
PodIsActive(status) ==
    IF IsSome(status) /\ IsSome(Unwrap(status).container_statuses)
    THEN \E c \in ContainerNames :
            Unwrap(Unwrap(status).container_statuses)[c] = "running"
    ELSE FALSE

ActiveJobPods(pods) == {n \in DOMAIN pods : PodIsActive(pods[n])}

\* Mutant: a terminated state of any container of the pod counts.
job_pod_container_status_is_terminated_anyContainer(job_pod, job_container_name) ==
    IF IsSome(job_pod) /\ IsSome(Unwrap(job_pod))
       /\ IsSome(Unwrap(Unwrap(job_pod)).container_statuses)
    THEN \E c \in ContainerNames :
            Unwrap(Unwrap(Unwrap(job_pod)).container_statuses)[c] = "terminated"
    ELSE FALSE

\* deploy_job.rs 753-770
job_pod_container_status_is_terminated(job_pod, job_container_name) ==
    IF IsSome(job_pod) /\ IsSome(Unwrap(job_pod))
       /\ IsSome(Unwrap(Unwrap(job_pod)).container_statuses)
    THEN \E c \in ContainerNames :
            /\ c = job_container_name
            /\ Unwrap(Unwrap(Unwrap(job_pod)).container_statuses)[c] = "terminated"
    ELSE FALSE

\* ------------------------------------------------------------ job status

Counters == {None, Some(0), Some(1)}
JobConditions ==
    { [type_ |-> "Failed", reason |-> Some("BackoffLimitExceeded"), message |-> Some("m1")],
      [type_ |-> "Failed", reason |-> None, message |-> None],
      [type_ |-> "Complete", reason |-> Some("Completed"), message |-> Some("m2")] }
ConditionLists ==
    {None} \cup {Some(<<>>)} \cup {Some(<<c>>) : c \in JobConditions}
           \cup {Some(<<c, d>>) : c \in JobConditions, d \in JobConditions}

\* Option<&K8sJob>: None, or a job whose status is None or a JobStatus.
JobSnapshots ==
    {None} \cup {Some([status |-> None])} \cup
    {Some([status |-> Some([succeeded |-> s, failed |-> f, conditions |-> cl])]) :
        s \in Counters, f \in Counters, cl \in ConditionLists}

RECURSIVE FindFailed_last(_)
\* Mutant: the last condition of type Failed is taken, not the first.
FindFailed_last(conds) ==
    IF conds = <<>> THEN None
    ELSE IF IsSome(FindFailed_last(Tail(conds))) THEN FindFailed_last(Tail(conds))
    ELSE IF Head(conds).type_ = "Failed" THEN Some(Head(conds))
    ELSE None

RECURSIVE FindFailed(_)
\* conds.iter().find(|c| c.type_ == "Failed").cloned()
FindFailed(conds) ==
    IF conds = <<>> THEN None
    ELSE IF Head(conds).type_ = "Failed" THEN Some(Head(conds))
    ELSE FindFailed(Tail(conds))

DefaultJobCondition == [type_ |-> "", reason |-> None, message |-> None]

StatusNotRunning == [tag |-> "NotRunning", reason |-> "", message |-> ""]
StatusRunning == [tag |-> "Running", reason |-> "", message |-> ""]
StatusSuccess == [tag |-> "Success", reason |-> "", message |-> ""]
StatusFailure(r, m) == [tag |-> "Failure", reason |-> r, message |-> m]

\* deploy_job.rs 616-639
job_status(k8s_job) ==
    IF IsSome(k8s_job)
    THEN IF IsSome(Unwrap(k8s_job).status)
         THEN LET status == Unwrap(Unwrap(k8s_job).status) IN
              IF IsSome(status.succeeded) THEN StatusSuccess
              ELSE IF IsSome(status.failed)
              THEN LET found == IF IsSome(status.conditions)
                                THEN FindFailed(Unwrap(status.conditions))
                                ELSE None
                       condition == UnwrapOr(found, DefaultJobCondition)
                   IN StatusFailure(UnwrapOr(condition.reason, ""),
                                    UnwrapOr(condition.message, ""))
              ELSE StatusRunning
         ELSE StatusRunning
    ELSE StatusNotRunning

\* Mutant: a job that is still running counts as terminated.
is_job_terminated_whenStarted(k8s_job) ==
    CASE job_status(k8s_job).tag = "NotRunning" -> FALSE
      [] job_status(k8s_job).tag = "Running" -> TRUE
      [] job_status(k8s_job).tag = "Success" -> TRUE
      [] job_status(k8s_job).tag = "Failure" -> TRUE

\* Mutant: only a successful job counts as terminated.
is_job_terminated_successOnly(k8s_job) ==
    CASE job_status(k8s_job).tag = "NotRunning" -> FALSE
      [] job_status(k8s_job).tag = "Running" -> FALSE
      [] job_status(k8s_job).tag = "Success" -> TRUE
      [] job_status(k8s_job).tag = "Failure" -> FALSE

\* deploy_job.rs 641-648
is_job_terminated(k8s_job) ==
    CASE job_status(k8s_job).tag = "NotRunning" -> FALSE
      [] job_status(k8s_job).tag = "Running" -> FALSE
      [] job_status(k8s_job).tag = "Success" -> TRUE
      [] job_status(k8s_job).tag = "Failure" -> TRUE

\* The job snapshots the watches of a whole run deliver: the job is gone, has
\* no status yet, is running, succeeded, failed with and without a condition
\* of type Failed, and succeeded after a failed pod.
JobWith(succeeded, failed, conditions) ==
    Some([status |-> Some([succeeded |-> succeeded, failed |-> failed,
                           conditions |-> conditions])])
RunJobSnapshots ==
    { None,
      Some([status |-> None]),
      JobWith(None, None, None),
      JobWith(Some(1), None, None),
      JobWith(None, Some(1), None),
      JobWith(None, Some(1),
              Some(<<[type_ |-> "Failed", reason |-> Some("BackoffLimitExceeded"),
                      message |-> Some("m1")]>>)),
      JobWith(Some(1), Some(1), None) }

\* What the job API delivers: an error of the call or of the watch, or the
\* job (None when there is no such job).
NoJobWatch == [failed |-> FALSE, job |-> None]
JobWatchEvents ==
    {[failed |-> TRUE, job |-> None]} \cup
    {[failed |-> FALSE, job |-> j] : j \in RunJobSnapshots}

\* Mutant: the existence check lets a missing job through.
JobExists_always(event) == TRUE

\* deploy_job.rs 346-353: jobs.get(job.kube_name()) is Ok.
JobExists(event) == ~event.failed /\ IsSome(event.job)

\* ---------------------------------------------------------- pod selector

\* Mutant: retry::retry gives up after the first list call.
HasNextDelay_none(calls_done, job_max_duration) == FALSE

\* Mutant: the number of delays is not clamped to 30.
RetryDelays_unclamped(job_max_duration) == job_max_duration \div RetryDelaySecs

\* deploy_job.rs 659-660: the number of delays handed to retry::retry.
RetryDelays(job_max_duration) ==
    Min(MaxRetryDelays, job_max_duration \div RetryDelaySecs)

\* retry::retry: after a Retry the next delay is slept if the iterator still
\* has one (calls_done list calls have consumed calls_done - 1 delays).
HasNextDelay(calls_done, job_max_duration) ==
    calls_done - 1 < RetryDelays(job_max_duration)

SelOk(name) == [tag |-> "Ok", name |-> name, msg |-> ""]
SelRetry(msg) == [tag |-> "Retry", name |-> "", msg |-> msg]

\* Mutant: the closure without its check of pending pods.
PollOnce_noPendingCheck(outcome, processed) ==
    IF ~outcome.ok THEN SelRetry("Error when listing pods")
    ELSE IF DOMAIN outcome.items = {} THEN SelRetry("No pod found")
    ELSE IF Cardinality(ActiveJobPods(outcome.items)) # 1
    THEN SelRetry("Cannot find active pod")
    ELSE LET active_selected_pod_name ==
                 CHOOSE n \in ActiveJobPods(outcome.items) : TRUE
         IN IF active_selected_pod_name \in processed
            THEN SelRetry("Selected pod has already been processed")
            ELSE SelOk(active_selected_pod_name)

\* Mutant: the selector does not look at the pods already processed.
PollOnce_noProcessedCheck(outcome, processed) ==
    IF ~outcome.ok THEN SelRetry("Error when listing pods")
    ELSE IF DOMAIN outcome.items = {} THEN SelRetry("No pod found")
    ELSE IF \E n \in DOMAIN outcome.items : PodIsPending(outcome.items[n])
    THEN SelRetry("pods are still pending")
    ELSE IF Cardinality(ActiveJobPods(outcome.items)) # 1
    THEN SelRetry("Cannot find active pod")
    ELSE SelOk(CHOOSE n \in ActiveJobPods(outcome.items) : TRUE)

\* deploy_job.rs 663-746: one run of the closure handed to retry::retry.
PollOnce(outcome, processed) ==
    IF ~outcome.ok THEN SelRetry("Error when listing pods")
    ELSE IF DOMAIN outcome.items = {} THEN SelRetry("No pod found")
    ELSE IF \E n \in DOMAIN outcome.items : PodIsPending(outcome.items[n])
    THEN SelRetry("pods are still pending")
    ELSE IF Cardinality(ActiveJobPods(outcome.items)) # 1
    THEN SelRetry("Cannot find active pod")
    ELSE LET active_selected_pod_name ==
                 CHOOSE n \in ActiveJobPods(outcome.items) : TRUE
         IN IF active_selected_pod_name \in processed
            THEN SelRetry("Selected pod has already been processed")
            ELSE SelOk(active_selected_pod_name)

\* ------------------------------------------------------------ abort signal

AbortStatuses == {"None", "Requested", "ForceRequested"}
should_cancel(status) == status \in {"Requested", "ForceRequested"}
should_force_cancel(status) == status = "ForceRequested"

\* Mutant: run_job reacts to any cancellation request, graceful or forced.
AbortObserved_any(status) == should_cancel(status)

\* deploy_job.rs 243 and 264: the severity run_job reacts to.
AbortObserved(status) == should_force_cancel(status)

\* What the watch of await_condition delivers: an error of the watch, or the
\* pod (None once the pod is gone).
NoWatch == [failed |-> FALSE, pod |-> None]
WatchEvents ==
    {[failed |-> TRUE, pod |-> None]} \cup
    {[failed |-> FALSE, pod |-> p] :
        p \in {None} \cup {Some(s) : s \in RunPodStatuses}}

\* ----------------------------------------------------------------- state

\* Seconds of job.max_duration() of the runs and of the selector calls.
RunDurations == {0, 10, 20}
SelDurations == {0, 9, 10, 20, 25, 299, 300, 600, 3600}

VARIABLES
    job_max_nb_restart,             \* job.max_nb_restart()
    job_max_duration,               \* job.max_duration(), in seconds
    schedule,                       \* job.schedule()
    is_force_trigger,               \* job.is_force_trigger()
    env_jobs,                       \* target.environment.jobs: is_job() of each
    abort,                          \* target.abort.status()
    pc,                             \* where run_job stands
    job_creation_iterations,
    set_of_pods_already_processed,
    pod_name,                       \* Option: the pod of the current cycle
    list_calls,                     \* list calls of the current selector call
    pods,                           \* Option: the pod list of the returning poll
    watched_pod,                    \* what the watch of the pod delivered last
    result,                         \* what run_job returned
    last_list,                      \* Option: what the latest list call returned
    watched_job,                    \* the job resource as the API reports it
    cronjob_installed,              \* cluster: the CronJob of the job exists
    cronjob_is_already_installed,   \* Option: the local of line 391
    cronjob_result,                 \* Option: the local of line 445
    job,                            \* classifier alone: the snapshot classified
    classified,                     \* classifier alone: Option, job_status(job)
    terminated,                     \* classifier alone: Option, is_job_terminated(job)
    helm_calls,                     \* history: chart deployer calls
    cycle_steps,                    \* history: steps of the current cycle
    attempt_statuses,               \* history: job status of every finished cycle
    select_branch,                  \* history: the select! branch taken last
    delete_attempted,               \* history: env jobs kubectl_exec_delete_job ran on
    abort_status,                   \* history: the status read at line 262 (Option)
    output_log,                     \* history: how the output of the cycle was logged
    cronjob_was_installed,          \* history: cronjob_installed when the run began
    cron_status,                    \* history: Option, the status matched at line 445
    svc_action,                     \* Option: the handler of DeploymentAction invoked
    image_source,                   \* job.image_source: "Registry" or "Build"
    delete_shared,                  \* job.should_delete_shared_registry()
    helm_fault,                     \* cluster: the chart deployer fails its calls
    last_image,                     \* cluster: Option, image of the deployed workload
    dpc,                            \* where the handler and its three-phase task stand
    then_teardown,                  \* on_delete: the teardown flow is still to come
    task_ctx,                       \* Option: the TaskContext the executor holds
    run_concluded,                  \* Option: how the run phase of the flow ended
    ops,                            \* history: operations of the current invocation
    image_at_start,                 \* history: last_image when the flow began
    handler_result,                 \* what the handler returned
    flows,                          \* history: flows the invocation has finished
    returned,                       \* history: results of the finished invocations
    json,                           \* parser alone: the payload handed in
    job_output_variables,           \* parser alone: Option, serialize_job_output(json)
    deserialized_json_hashmap_with_uppercase_keys,  \* Option: line 297
    kube_name,                      \* name builder alone: job.kube_name()
    job_to_start,                   \* name builder alone: Option, the K8sJob of line 415
    job_pod,                        \* container check alone: the Option<&Pod>
    job_container_name,             \* container check alone: the name looked for
    job_container_terminated        \* container check alone: Option, the bool returned

cfgVars ==
    <<job_max_nb_restart, job_max_duration, schedule, is_force_trigger, env_jobs>>
runVars ==
    <<pc, job_creation_iterations, set_of_pods_already_processed, pod_name,
      list_calls, pods, watched_pod, result, last_list, watched_job>>
cronVars ==
    <<cronjob_installed, cronjob_is_already_installed, cronjob_result,
      cronjob_was_installed, cron_status>>
fnVars == <<job, classified, terminated>>
dispVars ==
    <<svc_action, image_source, delete_shared, helm_fault, last_image, dpc,
      then_teardown, task_ctx, run_concluded, ops, image_at_start,
      handler_result, flows, returned>>
serVars ==
    <<json, job_output_variables,
      deserialized_json_hashmap_with_uppercase_keys>>
pureVars ==
    <<kube_name, job_to_start, job_pod, job_container_name,
      job_container_terminated>>
histVars ==
    <<helm_calls, cycle_steps, attempt_statuses, select_branch,
      delete_attempted, abort_status, output_log>>
vars ==
    <<cfgVars, abort, runVars, histVars, cronVars, fnVars, dispVars, serVars,
      pureVars>>

\* Result<TaskContext, Box<EngineError>>; msg is the error's message, in parts.
NoResult == [tag |-> "None", err |-> "", msg |-> <<>>]
OkResult == [tag |-> "Ok", err |-> "", msg |-> <<>>]
ErrResult(err, msg) == [tag |-> "Err", err |-> err, msg |-> msg]
CancelResult == ErrResult("TaskCancellationRequested", <<>>)
JobFailedResult(status) ==
    ErrResult("JobError",
              <<"Job failed to correctly run due to", status.reason, status.message>>)

\* No handler of DeploymentAction has been invoked: the state of the lifecycle
\* variables where only run_job, the selector or the classifier is modelled.
IdleDispatch ==
    /\ svc_action = None
    /\ image_source = "Registry"
    /\ delete_shared = FALSE
    /\ helm_fault = FALSE
    /\ last_image = None
    /\ dpc = "Idle"
    /\ then_teardown = FALSE
    /\ task_ctx = None
    /\ run_concluded = None
    /\ ops = <<>>
    /\ image_at_start = None
    /\ handler_result = NoResult
    /\ flows = <<>>
    /\ returned = <<>>

\* No payload has been handed to serialize_job_output.
IdleSerialize ==
    /\ json = None
    /\ job_output_variables = None
    /\ deserialized_json_hashmap_with_uppercase_keys = None

\* Neither the name of a one-off job is being built nor a pod being checked.
IdlePure ==
    /\ kube_name = <<>>
    /\ job_to_start = None
    /\ job_pod = None
    /\ job_container_name = ""
    /\ job_container_terminated = None

InitRun ==
    /\ pc = "Idle"
    /\ job_creation_iterations = 0
    /\ set_of_pods_already_processed = {}
    /\ pod_name = None
    /\ list_calls = 0
    /\ pods = None
    /\ watched_pod = NoWatch
    /\ result = NoResult
    /\ helm_calls = <<>>
    /\ cycle_steps = <<>>
    /\ attempt_statuses = <<>>
    /\ select_branch = "none"
    /\ delete_attempted = {}
    /\ abort_status = None
    /\ output_log = "none"
    /\ last_list = None
    /\ watched_job = NoJobWatch
    /\ cronjob_is_already_installed = None
    /\ cronjob_result = None
    /\ cron_status = None
    /\ cronjob_was_installed = cronjob_installed

\* The jobs run_job is called for: a one-shot job, or a cron job, force
\* triggered or not, whose CronJob is or is not in the cluster yet.
JobKinds ==
    {[schedule |-> "OnStart", is_force_trigger |-> FALSE, installed |-> FALSE]} \cup
    {[schedule |-> "Cron", is_force_trigger |-> f, installed |-> i] :
        f \in BOOLEAN, i \in BOOLEAN}

Init ==
    /\ job_max_nb_restart \in 0..MaxRestart
    /\ job_max_duration \in RunDurations
    /\ env_jobs \in [1..NumEnvJobs -> BOOLEAN]
    /\ \E k \in JobKinds :
          /\ schedule = k.schedule
          /\ is_force_trigger = k.is_force_trigger
          /\ cronjob_installed = k.installed
    /\ abort = "None"
    /\ InitRun
    /\ job = None
    /\ classified = None
    /\ terminated = None
    /\ IdleDispatch
    /\ IdleSerialize
    /\ IdlePure

\* ------------------------------------------------------- run_job, one-shot

Return(r) == pc' = "Done" /\ result' = r

Schedules == {"OnStart", "OnPause", "OnDelete", "Cron"}
is_job(s) == s \in {"OnStart", "OnPause", "OnDelete"}
is_cron_job(s) == s = "Cron"

\* Mutant: a cron job that is not force triggered is run as a one-shot job.
RunPath_cronAsJob(s, force_trigger) ==
    IF is_job(s) \/ (is_cron_job(s) /\ ~force_trigger) THEN "OneShot"
    ELSE IF is_cron_job(s) /\ force_trigger THEN "ForceTrigger"
    ELSE "None"

\* deploy_job.rs 215, 382 and 388: the three ifs of the task, in order.
RunPath(s, force_trigger) ==
    IF is_job(s) THEN "OneShot"
    ELSE IF is_cron_job(s) /\ ~force_trigger THEN "Install"
    ELSE IF is_cron_job(s) /\ force_trigger THEN "ForceTrigger"
    ELSE "None"

\* Mutant: the error of helm.on_delete is dropped instead of returned.
AfterHelmDelete_ignored(ok) == "Creating"

\* deploy_job.rs 217: helm.on_delete(target)?
AfterHelmDelete(ok) == IF ok THEN "Creating" ELSE "Done"

\* Mutant: the sentinel is written before the output is read.
StepAfter_sentinelFirst(step) ==
    CASE step = "AwaitingPod" -> "PodAcquired"
      [] step = "PodAcquired" -> "AwaitingContainerTermination"
      [] step = "AwaitingContainerTermination" -> "CheckAbort"
      [] step = "CheckAbort" -> "SignalingTermination"
      [] step = "SignalingTermination" -> "ExtractingOutput"
      [] step = "ExtractingOutput" -> "GetJob"
      [] step = "GetJob" -> "AwaitingJobTermination"

\* deploy_job.rs 230-360: the order of the steps of the loop body.
StepAfter(step) ==
    CASE step = "AwaitingPod" -> "PodAcquired"
      [] step = "PodAcquired" -> "AwaitingContainerTermination"
      [] step = "AwaitingContainerTermination" -> "CheckAbort"
      [] step = "CheckAbort" -> "ExtractingOutput"
      [] step = "ExtractingOutput" -> "SignalingTermination"
      [] step = "SignalingTermination" -> "GetJob"
      [] step = "GetJob" -> "AwaitingJobTermination"

\* Mutant: a failed write of the sentinel file starts another cycle.
AfterSentinelWrite_retries(ok) ==
    IF ok THEN StepAfter("SignalingTermination") ELSE "AwaitingPod"

\* deploy_job.rs 331-341: the ? after map_err returns the error of the exec.
AfterSentinelWrite(ok) ==
    IF ok THEN StepAfter("SignalingTermination") ELSE "Done"

\* Mutant: a failed cycle installs the chart again.
RetryStep_recreates == "Creating"

\* deploy_job.rs 229 and 372-378: continue goes to the head of the loop, which
\* is the pod selection; the chart calls of lines 217-224 are before the loop.
RetryStep == "AwaitingPod"

\* Mutant: the wait on the job is raced against the forced cancellation.
JobWaitInterrupted_raced(status) == should_force_cancel(status)

\* deploy_job.rs 355: block_on(await_condition(..)) alone, with no select! on
\* the cancellation, whatever the abort status is.
JobWaitInterrupted(status) == FALSE

\* Mutant: the wait on the container is not raced against the cancellation.
SelectBranch_waitOnly(cancel_ready, wait_ready) ==
    IF wait_ready THEN "terminated" ELSE "pending"

\* deploy_job.rs 250-260: tokio::select! { biased; cancel, container wait }.
SelectBranch(cancel_ready, wait_ready) ==
    IF cancel_ready THEN "cancel"
    ELSE IF wait_ready THEN "terminated"
    ELSE "pending"

RECURSIVE DeleteLifecycleJobs(_, _, _, _)
\* deploy_job.rs 266-281: the loop over the lifecycle jobs of the environment;
\* deleted[i] is whether kubectl_exec_delete_job succeeds on job i.
DeleteLifecycleJobs(jobs, deleted, i, attempted) ==
    IF i > Len(jobs) THEN [attempted |-> attempted, returned |-> FALSE]
    ELSE IF ~jobs[i] THEN DeleteLifecycleJobs(jobs, deleted, i + 1, attempted)
    ELSE IF deleted[i] THEN [attempted |-> attempted \cup {i}, returned |-> TRUE]
    ELSE DeleteLifecycleJobs(jobs, deleted, i + 1, attempted \cup {i})

\* Mutant: the budget is taken as exhausted one restart early.
RestartBudgetExhausted_early(iterations, max_nb_restart) ==
    iterations + 1 >= max_nb_restart

\* Mutant: a failure is always propagated, whatever the budget.
RestartBudgetExhausted_always(iterations, max_nb_restart) == TRUE

\* deploy_job.rs 374: job_creation_iterations == job_max_nb_restart
RestartBudgetExhausted(iterations, max_nb_restart) == iterations = max_nb_restart

\* deploy_job.rs 217
HelmDelete ==
    /\ pc = "Idle"
    /\ RunPath(schedule, is_force_trigger) = "OneShot"
    /\ \E ok \in BOOLEAN :
        /\ helm_calls' = Append(helm_calls, [call |-> "on_delete", ok |-> ok])
        /\ pc' = AfterHelmDelete(ok)
        /\ result' = IF pc' = "Done"
                     THEN ErrResult("HelmError", <<"on_delete">>) ELSE result
    /\ UNCHANGED <<cfgVars, dispVars, serVars, pureVars,
                   abort, cronVars, fnVars, last_list, watched_job,
                   job_creation_iterations,
                   set_of_pods_already_processed, pod_name, list_calls, pods,
                   watched_pod, cycle_steps, attempt_statuses, select_branch,
                   delete_attempted, abort_status, output_log>>

\* deploy_job.rs 220-228
HelmCreate ==
    /\ pc = "Creating"
    /\ \E ok \in BOOLEAN :
        /\ helm_calls' = Append(helm_calls, [call |-> "on_create", ok |-> ok])
        /\ IF ok
           THEN pc' = "AwaitingPod" /\ result' = result
           ELSE Return(ErrResult("HelmError", <<"on_create">>))
    /\ job_creation_iterations' = 0
    /\ set_of_pods_already_processed' = {}
    /\ UNCHANGED <<cfgVars, dispVars, serVars, pureVars,
                   abort, cronVars, fnVars, last_list, watched_job,
                   pod_name, list_calls, pods, watched_pod,
                   cycle_steps, attempt_statuses, select_branch,
                   delete_attempted, abort_status, output_log>>

\* deploy_job.rs 232-238 and 663-750: one list call of the selector, then the
\* retry (after the delay), the Ok return or the Err return of the whole call.
PollStep(outcome) ==
    /\ pc = "AwaitingPod"
    /\ LET r == PollOnce(outcome, set_of_pods_already_processed) IN
        /\ list_calls' = list_calls + 1
        /\ IF r.tag = "Ok"
           THEN /\ pc' = StepAfter("AwaitingPod")
                /\ pod_name' = Some(r.name)
                /\ pods' = Some(outcome)
                /\ cycle_steps' = Append(cycle_steps, "AwaitingPod")
                /\ result' = result
           ELSE IF HasNextDelay(list_calls + 1, job_max_duration)
           THEN UNCHANGED <<pc, pod_name, pods, cycle_steps, result>>
           ELSE /\ Return(ErrResult("JobError", <<r.msg>>))
                /\ UNCHANGED <<pod_name, pods, cycle_steps>>
    /\ UNCHANGED <<cfgVars, dispVars, serVars, pureVars,
                   abort, cronVars, fnVars, watched_job,
                   job_creation_iterations,
                   set_of_pods_already_processed, watched_pod, helm_calls,
                   attempt_statuses, select_branch, delete_attempted,
                   abort_status, output_log>>

Poll(outcomes) == \E outcome \in outcomes : PollStep(outcome) /\ UNCHANGED last_list

\* The same list call, with what kube_pod_api.list returned kept for inspection.
PollRecorded(outcomes) ==
    \E outcome \in outcomes : PollStep(outcome) /\ last_list' = Some(outcome)

\* deploy_job.rs 239-249: the pod is recorded as processed and the watch of
\* the container wait starts from the pod as the API reports it.
InsertProcessed ==
    /\ pc = "PodAcquired"
    /\ set_of_pods_already_processed' =
           set_of_pods_already_processed \cup {Unwrap(pod_name)}
    /\ pods' = None
    /\ list_calls' = 0
    /\ watched_pod' \in {w \in WatchEvents : ~w.failed}
    /\ pc' = StepAfter("PodAcquired")
    /\ UNCHANGED <<cfgVars, dispVars, serVars, pureVars,
                   abort, cronVars, fnVars, last_list, watched_job,
                   job_creation_iterations, pod_name, result,
                   histVars>>

\* The cluster changes the watched pod while run_job waits.
PodWatch ==
    /\ pc = "AwaitingContainerTermination"
    /\ watched_pod' \in WatchEvents \ {watched_pod}
    /\ UNCHANGED <<cfgVars, dispVars, serVars, pureVars,
                   abort, cronVars, fnVars, last_list, watched_job,
                   pc, job_creation_iterations,
                   set_of_pods_already_processed, pod_name, list_calls, pods,
                   result, histVars>>

\* deploy_job.rs 250-260: the select! completes by one of its branches; the
\* result of await_condition (the pod, or a watch error) is dropped.
SelectWait ==
    /\ pc = "AwaitingContainerTermination"
    /\ LET wait_ready ==
                \/ watched_pod.failed
                \/ job_pod_container_status_is_terminated(watched_pod.pod,
                                                          JobContainer)
           branch == SelectBranch(AbortObserved(abort), wait_ready)
       IN /\ branch # "pending"
          /\ select_branch' = branch
    /\ cycle_steps' = Append(cycle_steps, "AwaitingContainerTermination")
    /\ pc' = StepAfter("AwaitingContainerTermination")
    /\ UNCHANGED <<cfgVars, dispVars, serVars, pureVars,
                   abort, cronVars, fnVars, last_list, watched_job,
                   job_creation_iterations,
                   set_of_pods_already_processed, pod_name, list_calls, pods,
                   watched_pod, result, helm_calls, attempt_statuses,
                   delete_attempted, abort_status, output_log>>

\* deploy_job.rs 262-282
CheckAbort ==
    /\ pc = "CheckAbort"
    /\ watched_pod' = NoWatch
    /\ IF AbortObserved(abort)
       THEN \E deleted \in [1..Len(env_jobs) -> BOOLEAN] :
              LET d == DeleteLifecycleJobs(env_jobs, deleted, 1, {}) IN
              /\ abort_status' = Some(abort)
              /\ delete_attempted' = d.attempted
              /\ IF d.returned
                 THEN Return(CancelResult)
                 ELSE pc' = StepAfter("CheckAbort") /\ result' = result
       ELSE /\ pc' = StepAfter("CheckAbort")
            /\ abort_status' = Some(abort)
            /\ UNCHANGED <<result, delete_attempted>>
    /\ UNCHANGED <<cfgVars, dispVars, serVars, pureVars,
                   abort, cronVars, fnVars, last_list, watched_job,
                   job_creation_iterations,
                   set_of_pods_already_processed, pod_name, list_calls, pods,
                   helm_calls, cycle_steps, attempt_statuses,
                   select_branch, output_log>>

\* What kubectl_get_job_pod_output and serialize_job_output make of the file.
OutputOutcomes == {"ReadFailed", "Unparsable", "Valid"}

\* Mutant: an output that cannot be parsed ends the run with an error.
OutputEffect_parseFatal(outcome) ==
    CASE outcome = "ReadFailed" -> [log |-> "info", returns |-> FALSE]
      [] outcome = "Unparsable" -> [log |-> "warning", returns |-> TRUE]
      [] outcome = "Valid" -> [log |-> "core_configuration", returns |-> FALSE]

\* deploy_job.rs 292-327: the arms of the two matches; each one logs, none
\* returns.
OutputEffect(outcome) ==
    CASE outcome = "ReadFailed" -> [log |-> "info", returns |-> FALSE]
      [] outcome = "Unparsable" -> [log |-> "warning", returns |-> FALSE]
      [] outcome = "Valid" -> [log |-> "core_configuration", returns |-> FALSE]

\* deploy_job.rs 284-327: the output is read and parsed; every outcome is
\* only logged.
ExtractOutput ==
    /\ pc = "ExtractingOutput"
    /\ \E outcome \in OutputOutcomes :
        LET effect == OutputEffect(outcome) IN
        /\ output_log' = effect.log
        /\ IF effect.returns
           THEN Return(ErrResult("InvalidJobOutput", <<outcome>>))
           ELSE pc' = StepAfter("ExtractingOutput") /\ result' = result
    /\ cycle_steps' = Append(cycle_steps, "ExtractingOutput")
    /\ UNCHANGED <<cfgVars, dispVars, serVars, pureVars,
                   abort, cronVars, fnVars, last_list, watched_job,
                   job_creation_iterations,
                   set_of_pods_already_processed, pod_name, list_calls, pods,
                   watched_pod, helm_calls, attempt_statuses,
                   select_branch, delete_attempted, abort_status>>

\* deploy_job.rs 329-341: touch /qovery-output/terminate in the sidecar; from
\* here on the model follows the job resource of the cluster.
SignalTermination ==
    /\ pc = "SignalingTermination"
    /\ cycle_steps' = Append(cycle_steps, "SignalingTermination")
    /\ \E ok \in BOOLEAN :
        IF AfterSentinelWrite(ok) = "Done"
        THEN /\ Return(ErrResult("JobError", <<"Cannot create terminate file">>))
             /\ watched_job' = watched_job
        ELSE /\ pc' = AfterSentinelWrite(ok)
             /\ result' = result
             /\ watched_job' \in JobWatchEvents
    /\ UNCHANGED <<cfgVars, dispVars, serVars, pureVars,
                   abort, cronVars, fnVars, last_list,
                   job_creation_iterations,
                   set_of_pods_already_processed, pod_name, list_calls, pods,
                   watched_pod, helm_calls, attempt_statuses, select_branch,
                   delete_attempted, abort_status, output_log>>

\* deploy_job.rs 344-353: jobs.get(job.kube_name())
GetJob ==
    /\ pc = "GetJob"
    /\ IF JobExists(watched_job)
       THEN pc' = StepAfter("GetJob") /\ result' = result
       ELSE Return(ErrResult("JobError", <<"Cannot get job">>))
    /\ UNCHANGED <<cfgVars, dispVars, serVars, pureVars,
                   abort, cronVars, fnVars, last_list, watched_job,
                   job_creation_iterations,
                   set_of_pods_already_processed, pod_name, list_calls, pods,
                   watched_pod, histVars>>

\* The cluster changes the job while run_job waits for it: the job makes
\* progress, ends, is deleted, or the watch breaks.
JobWatch ==
    /\ pc = "AwaitingJobTermination"
    /\ watched_job' \in JobWatchEvents \ {watched_job}
    /\ UNCHANGED <<cfgVars, dispVars, serVars, pureVars,
                   abort, cronVars, fnVars, last_list, pc,
                   job_creation_iterations, set_of_pods_already_processed,
                   pod_name, list_calls, pods, watched_pod, result, histVars>>

\* deploy_job.rs 355-378: await_condition has no timeout: it returns an error
\* of the watch, or the first snapshot of the job that satisfies
\* is_job_terminated, and is pending until then; the status decides between
\* Ok, the failure and one more cycle.
AwaitJob ==
    /\ pc = "AwaitingJobTermination"
    /\ watched_job' = NoJobWatch
    /\ \/ /\ JobWaitInterrupted(abort)
          /\ Return(CancelResult)
          /\ cycle_steps' = Append(cycle_steps, "AwaitingJobTermination")
          /\ UNCHANGED <<job_creation_iterations, attempt_statuses, pod_name,
                         output_log>>
       \/ /\ watched_job.failed
          /\ Return(ErrResult("JobError", <<"Cannot find job for terminated pod">>))
          /\ cycle_steps' = Append(cycle_steps, "AwaitingJobTermination")
          /\ UNCHANGED <<job_creation_iterations, attempt_statuses, pod_name,
                         output_log>>
       \/ /\ ~watched_job.failed
          /\ is_job_terminated(watched_job.job)
          /\ LET ret == watched_job.job
                 status == job_status(ret) IN
            /\ attempt_statuses' = Append(attempt_statuses, status.tag)
            /\ CASE status.tag = "Success" ->
                      /\ Return(OkResult)
                      /\ cycle_steps' = Append(cycle_steps, "AwaitingJobTermination")
                      /\ UNCHANGED <<job_creation_iterations, pod_name, output_log>>
                 [] status.tag \in {"NotRunning", "Running"} ->
                      /\ Return(ErrResult("Panic", <<"unreachable">>))
                      /\ cycle_steps' = Append(cycle_steps, "AwaitingJobTermination")
                      /\ UNCHANGED <<job_creation_iterations, pod_name, output_log>>
                 [] status.tag = "Failure" ->
                      IF RestartBudgetExhausted(job_creation_iterations,
                                                job_max_nb_restart)
                      THEN /\ Return(JobFailedResult(status))
                           /\ cycle_steps' =
                                  Append(cycle_steps, "AwaitingJobTermination")
                           /\ UNCHANGED <<job_creation_iterations, pod_name,
                                          output_log>>
                      ELSE /\ job_creation_iterations' = job_creation_iterations + 1
                           /\ pc' = RetryStep
                           /\ pod_name' = None
                           /\ cycle_steps' = <<>>
                           /\ output_log' = "none"
                           /\ result' = result
    /\ UNCHANGED <<cfgVars, dispVars, serVars, pureVars,
                   abort, cronVars, fnVars, last_list,
                   set_of_pods_already_processed, list_calls,
                   pods, watched_pod, helm_calls, select_branch,
                   delete_attempted, abort_status>>

\* The user asks for a cancellation, then (or at once) forces it.
AbortRequest ==
    /\ pc # "Done"
    /\ abort = "None"
    /\ abort' = "Requested"
    /\ UNCHANGED <<cfgVars, dispVars, serVars, pureVars,
                   runVars, histVars, cronVars, fnVars>>

AbortForce ==
    /\ pc # "Done"
    /\ abort # "ForceRequested"
    /\ abort' = "ForceRequested"
    /\ UNCHANGED <<cfgVars, dispVars, serVars, pureVars,
                   runVars, histVars, cronVars, fnVars>>

\* ---------------------------------------------------- run_job, cron jobs

\* The one-shot variables, which the cron paths leave alone.
oneShotVars ==
    <<job_creation_iterations, set_of_pods_already_processed, pod_name,
      list_calls, pods, watched_pod, last_list, watched_job, cycle_steps,
      attempt_statuses, select_branch, delete_attempted, abort_status,
      output_log>>

\* deploy_job.rs 382-385 and 470: the cron job is installed, nothing is awaited.
CronInstall ==
    /\ pc = "Idle"
    /\ RunPath(schedule, is_force_trigger) = "Install"
    /\ \E ok \in BOOLEAN :
        /\ helm_calls' = Append(helm_calls, [call |-> "on_create", ok |-> ok])
        /\ cronjob_installed' = (cronjob_installed \/ ok)
        /\ Return(IF ok THEN OkResult ELSE ErrResult("HelmError", <<"on_create">>))
    /\ UNCHANGED <<cfgVars, dispVars, serVars, pureVars, abort, fnVars, oneShotVars,
                   cronjob_is_already_installed, cronjob_result,
                   cronjob_was_installed, cron_status>>

\* deploy_job.rs 388-391: k8s_cronjob_api.get(..).is_ok(), which is false for
\* a missing CronJob and for a failed call.
ForceTriggerCheck ==
    /\ pc = "Idle"
    /\ RunPath(schedule, is_force_trigger) = "ForceTrigger"
    /\ \E api_ok \in BOOLEAN :
          cronjob_is_already_installed' = Some(api_ok /\ cronjob_installed)
    /\ pc' = "CronCreating"
    /\ UNCHANGED <<cfgVars, dispVars, serVars, pureVars,
                   abort, fnVars, oneShotVars, result, helm_calls,
                   cronjob_installed, cronjob_result, cronjob_was_installed,
                   cron_status>>

\* deploy_job.rs 394: helm.on_create(target)?
ForceTriggerCreate ==
    /\ pc = "CronCreating"
    /\ \E ok \in BOOLEAN :
        /\ helm_calls' = Append(helm_calls, [call |-> "on_create", ok |-> ok])
        /\ cronjob_installed' = (cronjob_installed \/ ok)
        /\ IF ok
           THEN pc' = "CronGet" /\ result' = result
           ELSE Return(ErrResult("HelmError", <<"on_create">>))
    /\ UNCHANGED <<cfgVars, dispVars, serVars, pureVars, abort, fnVars, oneShotVars,
                   cronjob_is_already_installed, cronjob_result,
                   cronjob_was_installed, cron_status>>

\* deploy_job.rs 396-403: the CronJob is read back for its job template (which
\* the expect calls of lines 405-420 take to be complete).
ForceTriggerGetCron ==
    /\ pc = "CronGet"
    /\ \E api_ok \in BOOLEAN :
        IF api_ok /\ cronjob_installed
        THEN pc' = "CronJobCreate" /\ result' = result
        ELSE Return(ErrResult("JobError", <<"Cannot get cronjob">>))
    /\ UNCHANGED <<cfgVars, dispVars, serVars, pureVars,
                   abort, fnVars, oneShotVars, helm_calls, cronVars>>

\* deploy_job.rs 405-425: the one-off job is built from the template and created.
ForceTriggerCreateJob ==
    /\ pc = "CronJobCreate"
    /\ \E ok \in BOOLEAN :
        IF ok
        THEN pc' = "CronAwaiting" /\ result' = result
        ELSE Return(ErrResult("JobError", <<"Cannot create job from cronjob">>))
    /\ UNCHANGED <<cfgVars, dispVars, serVars, pureVars,
                   abort, fnVars, oneShotVars, helm_calls, cronVars>>

\* What the future of lines 428-443 resolves to: the timeout, an error of the
\* watch, or a snapshot of the job that satisfies is_job_terminated.
ForceWaitOutcomes ==
    {[kind |-> "timeout", job |-> None], [kind |-> "error", job |-> None]} \cup
    {[kind |-> "job", job |-> j] : j \in {r \in RunJobSnapshots : is_job_terminated(r)}}

\* deploy_job.rs 436-438: the status the future hands to the match.
ForceWaitStatus(outcome) ==
    IF outcome.kind = "timeout" THEN StatusRunning ELSE job_status(outcome.job)

\* Mutant: a job still running at the timeout is reported as an error.
CronjobResult_timeoutFails(status) ==
    CASE status.tag = "Success" -> OkResult
      [] status.tag = "Running" -> ErrResult("JobError", <<"Job is still running">>)
      [] status.tag = "NotRunning" ->
            ErrResult("JobError",
                      <<"Job failed to correctly run due to NotRunning">>)
      [] status.tag = "Failure" -> JobFailedResult(status)

\* deploy_job.rs 445-459: let cronjob_result = match job_status {..}
CronjobResult(status) ==
    CASE status.tag = "Success" -> OkResult
      [] status.tag = "Running" -> OkResult
      [] status.tag = "NotRunning" ->
            ErrResult("JobError",
                      <<"Job failed to correctly run due to NotRunning">>)
      [] status.tag = "Failure" -> JobFailedResult(status)

\* deploy_job.rs 428-459: the wait of at most 3800 seconds and the match.
ForceTriggerAwait ==
    /\ pc = "CronAwaiting"
    /\ \E outcome \in ForceWaitOutcomes :
        IF outcome.kind = "error"
        THEN /\ Return(ErrResult("JobError", <<"Cannot find job for terminated pod">>))
             /\ UNCHANGED <<cronjob_result, cron_status>>
        ELSE /\ cron_status' = Some(ForceWaitStatus(outcome).tag)
             /\ cronjob_result' = Some(CronjobResult(ForceWaitStatus(outcome)))
             /\ pc' = "CronUninstall"
             /\ result' = result
    /\ UNCHANGED <<cfgVars, dispVars, serVars, pureVars,
                   abort, fnVars, oneShotVars, helm_calls,
                   cronjob_installed, cronjob_is_already_installed,
                   cronjob_was_installed>>

\* deploy_job.rs 461-470: the CronJob is uninstalled if the check of line 391
\* did not find it, then cronjob_result is propagated.
ForceTriggerFinish ==
    /\ pc = "CronUninstall"
    /\ IF ~Unwrap(cronjob_is_already_installed)
       THEN \E ok \in BOOLEAN :
              /\ helm_calls' = Append(helm_calls, [call |-> "on_delete", ok |-> ok])
              /\ cronjob_installed' = (cronjob_installed /\ ~ok)
              /\ Return(IF ok THEN Unwrap(cronjob_result)
                        ELSE ErrResult("HelmError", <<"on_delete">>))
       ELSE /\ Return(Unwrap(cronjob_result))
            /\ UNCHANGED <<helm_calls, cronjob_installed>>
    /\ UNCHANGED <<cfgVars, dispVars, serVars, pureVars, abort, fnVars, oneShotVars,
                   cronjob_is_already_installed, cronjob_result,
                   cronjob_was_installed, cron_status>>

Next ==
    \/ HelmDelete
    \/ HelmCreate
    \/ Poll(ListOutcomes(PodNames, RunPodStatuses))
    \/ InsertProcessed
    \/ PodWatch
    \/ SelectWait
    \/ CheckAbort
    \/ ExtractOutput
    \/ SignalTermination
    \/ GetJob
    \/ JobWatch
    \/ AwaitJob
    \/ AbortRequest
    \/ AbortForce
    \/ CronInstall
    \/ ForceTriggerCheck
    \/ ForceTriggerCreate
    \/ ForceTriggerGetCron
    \/ ForceTriggerCreateJob
    \/ ForceTriggerAwait
    \/ ForceTriggerFinish

Spec == Init /\ [][Next]_vars

\* The select! is polled again and again by the runtime that block_on drives
\* (the cancellation future wakes up every second).
FairSpec == Spec /\ WF_vars(SelectWait)

\* block_on drives the wait for the job: await_condition resolves if the watch
\* breaks or delivers a terminated job, however the job changes in between.
FairJobWaitSpec == Spec /\ SF_vars(AwaitJob)

\* ------------------------------------- get_active_job_pod_by_selector alone

\* One call of the selector with any processed set and any pod status.
SelPodNames == {"pod-a", "pod-b"}

InitSel ==
    /\ job_max_nb_restart = 0
    /\ job_max_duration \in SelDurations
    /\ env_jobs = [i \in 1..NumEnvJobs |-> FALSE]
    /\ abort = "None"
    /\ pc = "AwaitingPod"
    /\ job_creation_iterations = 0
    /\ set_of_pods_already_processed \in SUBSET PodNames
    /\ pod_name = None
    /\ list_calls = 0
    /\ pods = None
    /\ watched_pod = NoWatch
    /\ result = NoResult
    /\ helm_calls = <<>>
    /\ cycle_steps = <<>>
    /\ attempt_statuses = <<>>
    /\ select_branch = "none"
    /\ delete_attempted = {}
    /\ abort_status = None
    /\ output_log = "none"
    /\ schedule = "OnStart"
    /\ is_force_trigger = FALSE
    /\ last_list = None
    /\ watched_job = NoJobWatch
    /\ cronjob_installed = FALSE
    /\ cronjob_is_already_installed = None
    /\ cronjob_result = None
    /\ cronjob_was_installed = FALSE
    /\ cron_status = None
    /\ job = None
    /\ classified = None
    /\ terminated = None
    /\ IdleDispatch
    /\ IdleSerialize
    /\ IdlePure

NextSel == Poll(ListOutcomes(SelPodNames, PodStatuses))

SpecSel == InitSel /\ [][NextSel]_vars

\* One call of the selector whose list calls are kept for inspection.
PollDurations == {0, 20, 30}

InitPoll ==
    /\ job_max_nb_restart = 0
    /\ job_max_duration \in PollDurations
    /\ env_jobs = [i \in 1..NumEnvJobs |-> FALSE]
    /\ schedule = "OnStart"
    /\ is_force_trigger = FALSE
    /\ cronjob_installed = FALSE
    /\ abort = "None"
    /\ pc = "AwaitingPod"
    /\ job_creation_iterations = 0
    /\ set_of_pods_already_processed \in SUBSET SelPodNames
    /\ pod_name = None
    /\ list_calls = 0
    /\ pods = None
    /\ watched_pod = NoWatch
    /\ result = NoResult
    /\ helm_calls = <<>>
    /\ cycle_steps = <<>>
    /\ attempt_statuses = <<>>
    /\ select_branch = "none"
    /\ delete_attempted = {}
    /\ abort_status = None
    /\ output_log = "none"
    /\ last_list = None
    /\ watched_job = NoJobWatch
    /\ cronjob_is_already_installed = None
    /\ cronjob_result = None
    /\ cronjob_was_installed = FALSE
    /\ cron_status = None
    /\ job = None
    /\ classified = None
    /\ terminated = None
    /\ IdleDispatch
    /\ IdleSerialize
    /\ IdlePure

NextPoll == PollRecorded(ListOutcomes(SelPodNames, RunPodStatuses))

SpecPoll == InitPoll /\ [][NextPoll]_vars

\* ------------------------------------------------- the job classifier alone

\* deploy_job.rs 616-648: job_status and the is_job_terminated condition are
\* applied to a snapshot.
Classify ==
    /\ classified = None
    /\ classified' = Some(job_status(job))
    /\ terminated' = Some(is_job_terminated(job))
    /\ UNCHANGED <<cfgVars, abort, runVars, histVars, cronVars, job,
                   dispVars, serVars, pureVars>>

InitClassify ==
    /\ job_max_nb_restart = 0
    /\ job_max_duration = 0
    /\ env_jobs = [i \in 1..NumEnvJobs |-> FALSE]
    /\ schedule = "OnStart"
    /\ is_force_trigger = FALSE
    /\ cronjob_installed = FALSE
    /\ abort = "None"
    /\ InitRun
    /\ job \in JobSnapshots
    /\ classified = None
    /\ terminated = None
    /\ IdleDispatch
    /\ IdleSerialize
    /\ IdlePure

NextClassify == Classify

SpecClassify == InitClassify /\ [][NextClassify]_vars

\* ----------------------------------------- lifecycle handlers, three phases

Handlers == {"on_create", "on_pause", "on_delete", "on_restart"}
ImageSources == {"Registry", "Build"}

\* One operation a phase performed on a collaborator, and whether it succeeded.
Op(op, arg, ok) == [op |-> op, arg |-> arg, ok |-> ok]
\* One finished three-phase flow and the result the executor returned for it.
Flow(flow, res) == [flow |-> flow, result |-> res]
\* One finished handler: its result and the workload it left on the cluster.
Invocation(handler, res, image) ==
    [handler |-> handler, result |-> res, last_image |-> image]

CreateRoute_ignoresForce(s, force_trigger) ==
    IF s \in {"OnStart", "Cron"} THEN "run_job" ELSE "noop"

\* The match of on_create on job_schedule, which is OnStart when a force
\* trigger is requested and self.schedule() otherwise.
CreateRoute(s, force_trigger) ==
    LET job_schedule == IF force_trigger THEN "OnStart" ELSE s
    IN  IF job_schedule \in {"OnStart", "Cron"} THEN "run_job" ELSE "noop"

\* The match of on_pause on self.schedule().
PauseRoute(s) ==
    IF s = "Cron" THEN "delete_job"
    ELSE IF s = "OnPause" THEN "run_job"
    ELSE "noop"

\* The match of on_delete: the flows on_delete executes, in order.
DeleteRoute(s) ==
    IF s = "OnDelete" THEN <<"run_job", "delete_job">> ELSE <<"delete_job">>

AfterFlow_ignoresError(teardown_pending, res) ==
    IF teardown_pending THEN "delete_job" ELSE "return"

\* The ? of on_delete after its first match: an error of the job run is
\* returned at once, and only a success reaches the teardown below it.
AfterFlow(teardown_pending, res) ==
    IF teardown_pending /\ res.tag = "Ok" THEN "delete_job" ELSE "return"

RestartResult_ok == OkResult

\* What on_restart returns.
RestartResult ==
    ErrResult("CannotRestartService", <<"Cannot restart Job service">>)

TaskReturn_reread(state, deployed) == [last_deployed_image |-> deployed]

\* Ok(state): the value the run closure returns is the TaskContext it received.
TaskReturn(state, deployed) == state

PostRunContext_always(res, state) == Some(state)

\* The TaskContext post_run can be called with: the closure takes it by value
\* together with an EnvSuccessLogger, the run closure consumed the one of
\* pre_run, and only its Ok carries one back.
PostRunContext(res, state) == IF res.tag = "Ok" THEN Some(state) ELSE None

PostRunResult_propagates(cleanup_ok) ==
    IF cleanup_ok THEN OkResult ELSE ErrResult("CleanupError", <<>>)

\* Both post_run closures return unit: their errors are logged, and the result
\* of the flow is the Ok of the run phase.
PostRunResult(cleanup_ok) == OkResult

\* post_run of run_job.
RunJobCleanup(source, state, ok) ==
    IF source = "Registry"
    THEN <<Op("delete_cached_image", state.last_deployed_image, ok)>>
    ELSE <<>>

RepositoryDeletions_stopsOnFailure(shared, shared_ok, legacy_ok) ==
    IF shared
    THEN IF shared_ok
         THEN <<Op("delete_repository", Some("shared_repository_name"), TRUE),
                Op("delete_repository", Some("legacy_repository_name"), legacy_ok)>>
         ELSE <<Op("delete_repository", Some("shared_repository_name"), FALSE)>>
    ELSE <<Op("delete_repository", Some("legacy_repository_name"), legacy_ok)>>

\* post_run of delete_job for ImageSource::Build.
RepositoryDeletions(shared, shared_ok, legacy_ok) ==
    (IF shared
     THEN <<Op("delete_repository", Some("shared_repository_name"), shared_ok)>>
     ELSE <<>>)
    \o <<Op("delete_repository", Some("legacy_repository_name"), legacy_ok)>>

\* post_run of delete_job.
DeleteJobCleanup(source, state, shared, ok1, ok2) ==
    IF source = "Registry"
    THEN <<Op("delete_cached_image", state.last_deployed_image, ok1)>>
    ELSE RepositoryDeletions(shared, ok1, ok2)

HelmUninstall_absentFails(deployed, fault) ==
    [ok |-> ~fault /\ deployed # None,
     deployed |-> IF fault THEN deployed ELSE None]

\* helm.on_delete(target): uninstalls the release of the job; a release that
\* is absent already is not an error.
HelmUninstall(deployed, fault) ==
    [ok |-> ~fault, deployed |-> IF fault THEN deployed ELSE None]

nonDispVars ==
    <<cfgVars, abort, runVars, histVars, cronVars, fnVars, serVars, pureVars>>

\* The executor hands back the result of a flow: the handler returns it, or
\* on_delete goes on to its teardown.
Conclude(flow, res, image) ==
    /\ flows' = Append(flows, Flow(flow, res))
    /\ then_teardown' = FALSE
    /\ IF AfterFlow(then_teardown, res) = "delete_job"
       THEN /\ dpc' = "DeleteJobPreRun"
            /\ UNCHANGED <<handler_result, returned>>
       ELSE /\ dpc' = "Returned"
            /\ handler_result' = res
            /\ returned' =
                   Append(returned, Invocation(Unwrap(svc_action), res, image))

\* A handler of DeploymentAction is entered.
Enter(handler) ==
    /\ dpc \in {"Idle", "Returned"}
    /\ Len(returned) < MaxInvocations
    /\ svc_action' = Some(handler)
    /\ helm_fault' \in BOOLEAN
    /\ flows' = <<>>
    /\ ops' = <<>>
    /\ task_ctx' = None
    /\ run_concluded' = None
    /\ image_at_start' = last_image
    /\ UNCHANGED <<image_source, delete_shared, last_image, nonDispVars>>

\* The handler executes the flows of route, or the closure that returns Ok(()).
Execute(handler, route) ==
    IF route = <<>>
    THEN /\ dpc' = "Returned"
         /\ then_teardown' = FALSE
         /\ handler_result' = OkResult
         /\ returned' = Append(returned, Invocation(handler, OkResult, last_image))
    ELSE /\ dpc' = IF Head(route) = "run_job" THEN "RunJobPreRun"
                   ELSE "DeleteJobPreRun"
         /\ then_teardown' = (Len(route) = 2)
         /\ handler_result' = NoResult
         /\ UNCHANGED returned

RouteFlows(route) == IF route = "noop" THEN <<>> ELSE <<route>>

on_create ==
    /\ Enter("on_create")
    /\ Execute("on_create", RouteFlows(CreateRoute(schedule, is_force_trigger)))

on_pause ==
    /\ Enter("on_pause")
    /\ Execute("on_pause", RouteFlows(PauseRoute(schedule)))

on_delete ==
    /\ Enter("on_delete")
    /\ Execute("on_delete", DeleteRoute(schedule))

on_restart ==
    /\ Enter("on_restart")
    /\ dpc' = "Returned"
    /\ then_teardown' = FALSE
    /\ handler_result' = RestartResult
    /\ returned' =
           Append(returned, Invocation("on_restart", RestartResult, last_image))

\* pre_run of run_job: mirror the image of a registry source, then read the
\* image of the workload deployed last.
RunJobPreRun ==
    /\ dpc = "RunJobPreRun"
    /\ image_at_start' = last_image
    /\ run_concluded' = None
    /\ \E mirror_ok \in BOOLEAN :
          IF image_source = "Registry" /\ ~mirror_ok
          THEN /\ ops' = <<Op("mirror_image_if_necessary", None, FALSE)>>
               /\ task_ctx' = None
               /\ Conclude("run_job", ErrResult("MirrorImageError", <<>>),
                           last_image)
          ELSE /\ ops' =
                     (IF image_source = "Registry"
                      THEN <<Op("mirror_image_if_necessary", None, TRUE)>>
                      ELSE <<>>)
                     \o <<Op("get_last_deployed_image", last_image, TRUE)>>
               /\ task_ctx' = Some([last_deployed_image |-> last_image])
               /\ dpc' = "RunJobTask"
               /\ UNCHANGED <<then_teardown, handler_result, flows, returned>>
    /\ UNCHANGED <<svc_action, image_source, delete_shared, helm_fault,
                   last_image, nonDispVars>>

\* The run closure of run_job as the executor sees it: it changes the workload
\* of the job and returns Ok(state) or an error.
RunJobTask ==
    /\ dpc = "RunJobTask"
    /\ \E ok \in BOOLEAN, image \in {last_image, Some("image-new"), None} :
          LET res == IF ok THEN OkResult ELSE ErrResult("JobError", <<>>)
              next == PostRunContext(res, TaskReturn(Unwrap(task_ctx), image))
          IN  /\ last_image' = image
              /\ ops' = Append(ops, Op("run_job.task", image, ok))
              /\ run_concluded' = Some(ok)
              /\ task_ctx' = next
              /\ IF next # None
                 THEN /\ dpc' = "RunJobPostRun"
                      /\ UNCHANGED <<then_teardown, handler_result, flows,
                                     returned>>
                 ELSE Conclude("run_job", res, image)
    /\ UNCHANGED <<svc_action, image_source, delete_shared, helm_fault,
                   image_at_start, nonDispVars>>

RunJobPostRun ==
    /\ dpc = "RunJobPostRun"
    /\ \E ok \in BOOLEAN :
          /\ ops' = ops \o RunJobCleanup(image_source, Unwrap(task_ctx), ok)
          /\ Conclude("run_job", PostRunResult(ok), last_image)
    /\ task_ctx' = None
    /\ UNCHANGED <<svc_action, image_source, delete_shared, helm_fault,
                   last_image, run_concluded, image_at_start, nonDispVars>>

\* pre_run of delete_job.
DeleteJobPreRun ==
    /\ dpc = "DeleteJobPreRun"
    /\ image_at_start' = last_image
    /\ run_concluded' = None
    /\ ops' = <<Op("get_last_deployed_image", last_image, TRUE)>>
    /\ task_ctx' = Some([last_deployed_image |-> last_image])
    /\ dpc' = "DeleteJobTask"
    /\ UNCHANGED <<svc_action, image_source, delete_shared, helm_fault,
                   last_image, then_teardown, handler_result, flows, returned,
                   nonDispVars>>

\* The run closure of delete_job: render the chart values, uninstall the chart.
DeleteJobTask ==
    /\ dpc = "DeleteJobTask"
    /\ \E tera_ok \in BOOLEAN :
          LET helm == HelmUninstall(last_image, helm_fault)
              ok == tera_ok /\ helm.ok
              res == IF ok THEN OkResult
                     ELSE IF tera_ok THEN ErrResult("HelmError", <<>>)
                     ELSE ErrResult("TeraContextError", <<>>)
              image == IF tera_ok THEN helm.deployed ELSE last_image
              next == PostRunContext(res, TaskReturn(Unwrap(task_ctx), image))
          IN  /\ last_image' = image
              /\ ops' = ops \o <<Op("to_tera_context", None, tera_ok)>>
                            \o (IF tera_ok
                                THEN <<Op("helm.on_delete", None, helm.ok)>>
                                ELSE <<>>)
              /\ run_concluded' = Some(ok)
              /\ task_ctx' = next
              /\ IF next # None
                 THEN /\ dpc' = "DeleteJobPostRun"
                      /\ UNCHANGED <<then_teardown, handler_result, flows,
                                     returned>>
                 ELSE Conclude("delete_job", res, image)
    /\ UNCHANGED <<svc_action, image_source, delete_shared, helm_fault,
                   image_at_start, nonDispVars>>

DeleteJobPostRun ==
    /\ dpc = "DeleteJobPostRun"
    /\ \E ok1 \in BOOLEAN, ok2 \in BOOLEAN :
          /\ ops' = ops \o DeleteJobCleanup(image_source, Unwrap(task_ctx),
                                            delete_shared, ok1, ok2)
          /\ Conclude("delete_job", PostRunResult(ok1 /\ ok2), last_image)
    /\ task_ctx' = None
    /\ UNCHANGED <<svc_action, image_source, delete_shared, helm_fault,
                   last_image, run_concluded, image_at_start, nonDispVars>>

InitDispatch ==
    /\ job_max_nb_restart = 0
    /\ job_max_duration = 0
    /\ env_jobs = [i \in 1..NumEnvJobs |-> FALSE]
    /\ schedule \in Schedules
    /\ is_force_trigger \in BOOLEAN
    /\ cronjob_installed = FALSE
    /\ abort = "None"
    /\ InitRun
    /\ job = None
    /\ classified = None
    /\ terminated = None
    /\ svc_action = None
    /\ image_source \in ImageSources
    /\ delete_shared \in BOOLEAN
    /\ helm_fault = FALSE
    /\ last_image \in {None, Some("image-old")}
    /\ dpc = "Idle"
    /\ then_teardown = FALSE
    /\ task_ctx = None
    /\ run_concluded = None
    /\ ops = <<>>
    /\ image_at_start = None
    /\ handler_result = NoResult
    /\ flows = <<>>
    /\ returned = <<>>
    /\ IdleSerialize
    /\ IdlePure

NextDispatch ==
    \/ on_create
    \/ on_pause
    \/ on_delete
    \/ on_restart
    \/ RunJobPreRun
    \/ RunJobTask
    \/ RunJobPostRun
    \/ DeleteJobPreRun
    \/ DeleteJobTask
    \/ DeleteJobPostRun

SpecDispatch == InitDispatch /\ [][NextDispatch]_vars

\* --------------------------------------------------- serialize_job_output

\* A serde_json::Value below the top level: kind is its JSON type, str the
\* content of a string, json its JSON text (Value::to_string).
JValue(kind, str, text) == [kind |-> kind, str |-> str, json |-> text]
\* Value::default()
JsonNull == JValue("null", "", "null")
JsonBool(b) == JValue("bool", "", IF b THEN "true" ELSE "false")
JsonNumber(text) == JValue("number", "", text)
JsonString(s) == JValue("string", s, "\"" \o s \o "\"")

is_string(v) == v.kind = "string"
as_str(v) == IF v.kind = "string" THEN Some(v.str) ELSE None
as_bool(v) == IF v.kind = "bool" THEN Some(v.json = "true") ELSE None
to_string(v) == v.json
unwrap_or(o, default) == IF o = None THEN default ELSE Unwrap(o)

\* The members of an entry the parser reads; each is an Option, as Map::get
\* returns it. Other members are never read.
Fields(value, sensitive, description) ==
    [value |-> value, sensitive |-> sensitive, description |-> description]
NoFields == Fields(None, None, None)

\* A top-level member of the payload: a JSON object with its members, or a
\* value of another JSON type.
JsonObject(fields) == [kind |-> "object", fields |-> fields]
NonObject(kind) == [kind |-> kind, fields |-> NoFields]
as_object(v) == IF v.kind = "object" THEN Some(v.fields) ELSE None

\* The keys a payload of the model uses.
OutputKeys == {"foo", "foo_2", "Foo"}

ValueMembers ==
    {None, Some(JsonString("bar")), Some(JsonNumber("123")),
     Some(JsonNumber("123.456")), Some(JsonNull)}
SensitiveMembers ==
    {None, Some(JsonBool(TRUE)), Some(JsonBool(FALSE)), Some(JsonString("yes"))}
DescriptionMembers ==
    {None, Some(JsonString("a description")), Some(JsonNumber("1"))}

TopLevelValues ==
    {JsonObject(Fields(v, s, d)) :
        v \in ValueMembers, s \in SensitiveMembers, d \in DescriptionMembers}
    \cup {NonObject("string"), NonObject("number"), NonObject("array")}

\* The text handed to the parser: syntax is "invalid" for text that is not
\* JSON, else the JSON type of the document; members maps each key to the
\* member of a document that is an object (None: no such key); escaped holds
\* the keys the text writes with an escape sequence (as in "fo\u006f").
EscapedPayload(syntax, members, escaped) ==
    [syntax |-> syntax, members |-> members, escaped |-> escaped]
Payload(syntax, members) == EscapedPayload(syntax, members, {})
NoMembers == [k \in OutputKeys |-> None]
\* The members of a document with the keys foo, foo_2 and Foo.
Members(foo, foo_2, Foo) ==
    [k \in OutputKeys |->
        IF k = "foo" THEN foo ELSE IF k = "foo_2" THEN foo_2 ELSE Foo]
\* A member under the key Foo, when the document has one.
OtherCaseMembers ==
    {None, Some(JsonObject(Fields(Some(JsonString("bar_2")), None, None)))}
ObjectMembers ==
    {Members(a, b, c) :
        a \in {None} \cup {Some(v) : v \in TopLevelValues},
        b \in {None} \cup {Some(v) : v \in TopLevelValues},
        c \in OtherCaseMembers}
Payloads ==
    {Payload("object", m) : m \in ObjectMembers}
    \cup {EscapedPayload("object", m, {"foo"}) :
             m \in {n \in ObjectMembers : n["foo"] # None /\ n["Foo"] = None}}
    \cup {Payload("invalid", NoMembers), Payload("array", NoMembers),
          Payload("string", NoMembers)}

\* serde_json::from_str::<HashMap<&str, Value>>: the text must be a JSON
\* object, and every key must be borrowed from the text, which a key written
\* with an escape sequence cannot be.
FromStrOk(payload) ==
    /\ payload.syntax = "object"
    /\ \A key \in payload.escaped : payload.members[key] = None

JobOutputVariable(value, sensitive, description) ==
    [value |-> value, sensitive |-> sensitive, description |-> description]

OutputVariableOf_alwaysToString(hashmap) ==
    JobOutputVariable(
        to_string(unwrap_or(hashmap.value, JsonNull)),
        unwrap_or(as_bool(unwrap_or(hashmap.sensitive, JsonNull)), FALSE),
        unwrap_or(as_str(unwrap_or(hashmap.description, JsonNull)), ""))

OutputVariableOf_strict(hashmap) ==
    JobOutputVariable(
        IF hashmap.value = None THEN ""
        ELSE IF is_string(Unwrap(hashmap.value))
        THEN unwrap_or(as_str(Unwrap(hashmap.value)), "")
        ELSE to_string(Unwrap(hashmap.value)),
        hashmap.sensitive # None /\ hashmap.sensitive # Some(JsonBool(FALSE)),
        IF hashmap.description = None THEN ""
        ELSE IF is_string(Unwrap(hashmap.description))
        THEN Unwrap(hashmap.description).str
        ELSE to_string(Unwrap(hashmap.description)))

OutputVariableOf_serdeDefault(hashmap) ==
    JobOutputVariable(
        IF hashmap.value = None THEN ""
        ELSE IF is_string(Unwrap(hashmap.value))
        THEN unwrap_or(as_str(Unwrap(hashmap.value)), "")
        ELSE to_string(Unwrap(hashmap.value)),
        IF hashmap.sensitive = None THEN TRUE
        ELSE unwrap_or(as_bool(Unwrap(hashmap.sensitive)), FALSE),
        unwrap_or(as_str(unwrap_or(hashmap.description, JsonNull)), ""))

\* deploy_job.rs 805-829: the JobOutputVariable built from one entry.
OutputVariableOf(hashmap) ==
    LET value == unwrap_or(hashmap.value, JsonNull)
        job_output_value ==
            IF is_string(value) THEN unwrap_or(as_str(value), "")
            ELSE to_string(value)
        job_output_description ==
            unwrap_or(as_str(unwrap_or(hashmap.description, JsonNull)), "")
    IN  JobOutputVariable(
            job_output_value,
            unwrap_or(as_bool(unwrap_or(hashmap.sensitive, JsonNull)), FALSE),
            job_output_description)

\* Result<HashMap<String, JobOutputVariable>, serde_json::Error>
SerializeErr == [ok |-> FALSE, variables |-> [k \in OutputKeys |-> None]]
SerializeOk(variables) == [ok |-> TRUE, variables |-> variables]

\* deploy_job.rs 795-836
serialize_job_output(payload) ==
    IF ~FromStrOk(payload) THEN SerializeErr
    ELSE SerializeOk(
             [key \in OutputKeys |->
                 IF payload.members[key] = None THEN None
                 ELSE LET job_output_variable_object ==
                              as_object(Unwrap(payload.members[key]))
                      IN  IF job_output_variable_object = None THEN None
                          ELSE Some(OutputVariableOf(
                                        Unwrap(job_output_variable_object)))])

Serialize ==
    /\ json # None
    /\ job_output_variables = None
    /\ job_output_variables' = Some(serialize_job_output(Unwrap(json)))
    /\ UNCHANGED <<cfgVars, abort, runVars, histVars, cronVars, fnVars,
                   dispVars, pureVars, json,
                   deserialized_json_hashmap_with_uppercase_keys>>

\* str::to_uppercase on the keys of the model.
to_uppercase(key) ==
    CASE key = "foo" -> "FOO"
      [] key = "foo_2" -> "FOO_2"
      [] key = "Foo" -> "FOO"

\* One (key, value) pair of a HashMap<String, JobOutputVariable>.
Pair(key, variable) == [key |-> key, variable |-> variable]

UppercasePairs_keepsCase(variables) ==
    {Pair(k, Unwrap(variables[k])) :
        k \in {key \in OutputKeys : variables[key] # None}}

\* deploy_job.rs 299-300: the pairs the iterator over the parsed map yields.
UppercasePairs(variables) ==
    {Pair(to_uppercase(k), Unwrap(variables[k])) :
        k \in {key \in OutputKeys : variables[key] # None}}

\* deploy_job.rs 297-301: what collect() can build from the pairs. A HashMap
\* holds one pair for a key; of two pairs with one key the one the iterator
\* yields last stays, and the order of the iterator is not fixed.
CollectedMaps(pairs) ==
    {m \in SUBSET pairs :
        /\ \A p \in pairs : \E q \in m : q.key = p.key
        /\ \A p \in m, q \in m : p.key = q.key => p = q}

\* deploy_job.rs 295-308: the upper-cased map of a successful parse, which
\* the logger receives as JSON text.
UppercaseKeys ==
    /\ job_output_variables # None
    /\ Unwrap(job_output_variables).ok
    /\ deserialized_json_hashmap_with_uppercase_keys = None
    /\ \E m \in CollectedMaps(
                   UppercasePairs(Unwrap(job_output_variables).variables)) :
          deserialized_json_hashmap_with_uppercase_keys' = Some(m)
    /\ UNCHANGED <<cfgVars, abort, runVars, histVars, cronVars, fnVars,
                   dispVars, pureVars, json, job_output_variables>>

InitSerialize ==
    /\ job_max_nb_restart = 0
    /\ job_max_duration = 0
    /\ env_jobs = [i \in 1..NumEnvJobs |-> FALSE]
    /\ schedule = "OnStart"
    /\ is_force_trigger = FALSE
    /\ cronjob_installed = FALSE
    /\ abort = "None"
    /\ InitRun
    /\ job = None
    /\ classified = None
    /\ terminated = None
    /\ IdleDispatch
    /\ json \in {Some(p) : p \in Payloads}
    /\ job_output_variables = None
    /\ deserialized_json_hashmap_with_uppercase_keys = None
    /\ IdlePure

NextSerialize ==
    \/ Serialize
    \/ UppercaseKeys

SpecSerialize == InitSerialize /\ [][NextSerialize]_vars

\* ------------------------------------------ name of the force-triggered job

\* A kube name is a sequence of characters; the names of the model are made
\* of two letters and differ in length and in the letter they begin with.
Letter(i) == IF i % 2 = 0 THEN "a" ELSE "b"
KubeNames ==
    {[i \in 1..n |-> Letter(i + v)] : n \in 0..MaxKubeNameLen, v \in 0..1}

\* "-force-trigger"
ForceTriggerSuffix ==
    <<"-", "f", "o", "r", "c", "e", "-", "t", "r", "i", "g", "g", "e", "r">>

\* chars().take(n).join("")
Take(s, n) == SubSeq(s, 1, IF Len(s) < n THEN Len(s) ELSE n)

force_trigger_job_name_untruncated(name) ==
    Take(name, K8sNameLimit) \o ForceTriggerSuffix

\* deploy_job.rs 414
force_trigger_job_name(name) ==
    Take(name, K8sNameLimit - ForceTriggerSuffixLen) \o ForceTriggerSuffix

\* deploy_job.rs 405-422: the K8sJob built from the template of the CronJob.
BuildJobToStart ==
    /\ job_to_start = None
    /\ job_to_start' =
           Some([name |-> force_trigger_job_name(kube_name),
                 ttl_seconds_after_finished |-> Some(TtlSecondsAfterFinished)])
    /\ UNCHANGED <<cfgVars, abort, runVars, histVars, cronVars, fnVars,
                   dispVars, serVars, kube_name, job_pod, job_container_name,
                   job_container_terminated>>

InitName ==
    /\ job_max_nb_restart = 0
    /\ job_max_duration = 0
    /\ env_jobs = [i \in 1..NumEnvJobs |-> FALSE]
    /\ schedule = "Cron"
    /\ is_force_trigger = TRUE
    /\ cronjob_installed = FALSE
    /\ abort = "None"
    /\ InitRun
    /\ job = None
    /\ classified = None
    /\ terminated = None
    /\ IdleDispatch
    /\ IdleSerialize
    /\ kube_name \in KubeNames
    /\ job_to_start = None
    /\ job_pod = None
    /\ job_container_name = ""
    /\ job_container_terminated = None

NextName == BuildJobToStart

SpecName == InitName /\ [][NextName]_vars

\* ------------------------------------- job_pod_container_status_is_terminated

\* The names the check is asked for: a container of the pod or another name.
CheckedNames == ContainerNames \cup {"other"}

CheckContainer ==
    /\ job_container_terminated = None
    /\ job_container_terminated' =
           Some(job_pod_container_status_is_terminated(job_pod,
                                                       job_container_name))
    /\ UNCHANGED <<cfgVars, abort, runVars, histVars, cronVars, fnVars,
                   dispVars, serVars, kube_name, job_to_start, job_pod,
                   job_container_name>>

InitContainer ==
    /\ job_max_nb_restart = 0
    /\ job_max_duration = 0
    /\ env_jobs = [i \in 1..NumEnvJobs |-> FALSE]
    /\ schedule = "OnStart"
    /\ is_force_trigger = FALSE
    /\ cronjob_installed = FALSE
    /\ abort = "None"
    /\ InitRun
    /\ job = None
    /\ classified = None
    /\ terminated = None
    /\ IdleDispatch
    /\ IdleSerialize
    /\ kube_name = <<>>
    /\ job_to_start = None
    /\ job_pod \in {None} \cup {Some(status) : status \in PodStatuses}
    /\ job_container_name \in CheckedNames
    /\ job_container_terminated = None

NextContainer == CheckContainer

SpecContainer == InitContainer /\ [][NextContainer]_vars

\* ------------------------------------------------------------------ claims

RECURSIVE IsPrefix(_, _)
IsPrefix(s, t) ==
    \/ s = <<>>
    \/ /\ t # <<>>
       /\ Head(s) = Head(t)
       /\ IsPrefix(Tail(s), Tail(t))

AllFailure(statuses) == \A i \in 1..Len(statuses) : statuses[i] = "Failure"

\* The error run_job builds from a Failure status (deploy_job.rs 366-369).
IsJobFailure(r) ==
    /\ r.tag = "Err"
    /\ r.err = "JobError"
    /\ Len(r.msg) = 3
    /\ r.msg[1] = "Job failed to correctly run due to"

\* C1: in a one-shot run whose attempts all end in Failure, with
\* max_nb_restart = n, the run goes through exactly n + 1 full cycles and
\* then returns the failure: no failure is returned before cycle n + 1, cycle
\* n + 1 ends the run with it, and there is no cycle n + 2.
C1_FailureAfterAllRestarts ==
    is_job(schedule) =>
        /\ AllFailure(attempt_statuses) =>
               Len(attempt_statuses) <= job_max_nb_restart + 1
        /\ IsJobFailure(result) =>
               /\ AllFailure(attempt_statuses)
               /\ Len(attempt_statuses) = job_max_nb_restart + 1
        /\ (AllFailure(attempt_statuses)
            /\ Len(attempt_statuses) = job_max_nb_restart + 1) =>
               pc = "Done" /\ IsJobFailure(result)

C1_Witness ==
    /\ is_job(schedule)
    /\ pc = "Done"
    /\ job_max_nb_restart = 1
    /\ attempt_statuses = <<"Failure", "Failure">>
    /\ IsJobFailure(result)

\* C2: a cycle whose job status is Success ends the run with Ok at once; a
\* cycle whose status is Failure while fewer than max_nb_restart restarts are
\* consumed returns nothing and goes back to pod acquisition; so failures
\* followed by a Success give Ok.
C2_SuccessReturnsFailureRetries ==
    /\ [][(pc = "AwaitingJobTermination"
           /\ Len(attempt_statuses') = Len(attempt_statuses) + 1) =>
            LET st == attempt_statuses'[Len(attempt_statuses')] IN
            /\ st = "Success" => pc' = "Done" /\ result' = OkResult
            /\ (st = "Failure" /\ job_creation_iterations < job_max_nb_restart) =>
                   /\ pc' = "AwaitingPod"
                   /\ result' = NoResult
                   /\ job_creation_iterations' = job_creation_iterations + 1]_vars
    /\ [](\A i \in 1..Len(attempt_statuses) :
             attempt_statuses[i] = "Success" =>
                 /\ i = Len(attempt_statuses)
                 /\ result = OkResult)

C2_Witness ==
    /\ pc = "Done"
    /\ attempt_statuses = <<"Failure", "Success">>
    /\ result = OkResult

CycleOrder ==
    <<"AwaitingPod", "AwaitingContainerTermination", "ExtractingOutput",
      "SignalingTermination", "AwaitingJobTermination">>

\* C3: the steps of a cycle happen in the order AwaitingPod,
\* AwaitingContainerTermination, ExtractingOutput, SignalingTermination,
\* AwaitingJobTermination; the sentinel is written only after the output read
\* of the same cycle.
C3_StepOrder ==
    /\ IsPrefix(cycle_steps, CycleOrder)
    /\ \A i \in 1..Len(cycle_steps) :
          cycle_steps[i] = "SignalingTermination" =>
              \E j \in 1..(i - 1) : cycle_steps[j] = "ExtractingOutput"

C3_Witness == pc = "Done" /\ result = OkResult /\ cycle_steps = CycleOrder

\* C4: in a one-shot run the delete of the chart deployer is called before
\* the create, and a failed delete ends the run with its error before any
\* create.
C4_DeleteBeforeCreate ==
    is_job(schedule) =>
        /\ \A i \in 1..Len(helm_calls) :
              helm_calls[i].call = "on_create" =>
                  i > 1 /\ helm_calls[i - 1] = [call |-> "on_delete", ok |-> TRUE]
        /\ (helm_calls # <<>> /\ ~helm_calls[1].ok) =>
              /\ Len(helm_calls) = 1
              /\ pc = "Done"
              /\ result = ErrResult("HelmError", <<"on_delete">>)

C4_Witness ==
    /\ is_job(schedule)
    /\ helm_calls = <<[call |-> "on_delete", ok |-> FALSE]>>
    /\ pc = "Done"

LifecycleJobs == {i \in 1..Len(env_jobs) : env_jobs[i]}

\* C5: once a forced cancellation is observed after the container wait, the
\* run has returned the task-cancellation error, whatever the lifecycle jobs
\* of the environment and whatever their deletions returned; it does not go
\* on to the output, the sentinel or the job wait.
C5_ForcedCancelReturnsCancellation ==
    abort_status = Some("ForceRequested") =>
        pc = "Done" /\ result = CancelResult

\* C6: when a run returns on a forced cancellation, a deletion was attempted
\* for every lifecycle job of the environment.
C6_EveryLifecycleJobDeleted ==
    (pc = "Done" /\ abort_status = Some("ForceRequested")
     /\ result = CancelResult) =>
        delete_attempted = LifecycleJobs

\* C7: a forced cancellation requested during the container wait ends the
\* wait, even if the container never terminates; and whenever the wait ends
\* while a forced cancellation is requested (the container terminated or not),
\* it ends by the cancellation branch.
C7_CancelInterruptsWait ==
    /\ (pc = "AwaitingContainerTermination" /\ abort = "ForceRequested")
           ~> (pc # "AwaitingContainerTermination")
    /\ [][(pc = "AwaitingContainerTermination"
           /\ pc' # "AwaitingContainerTermination"
           /\ abort = "ForceRequested") =>
              select_branch' = "cancel"]_vars

\* Cancellation and container termination were both ready, and the select!
\* took the cancellation branch.
C7_Witness ==
    /\ pc = "CheckAbort"
    /\ select_branch = "cancel"
    /\ watched_pod.pod =
           Some(Some([phase |-> Some("Running"),
                      container_statuses |->
                          Some(Containers("terminated", "running"))]))

HasPhasePending(s) == s # None /\ s[1].phase = Some("Pending")
HasRunningContainer(s) ==
    /\ s # None
    /\ s[1].container_statuses # None
    /\ \E c \in ContainerNames : s[1].container_statuses[1][c] = "running"

\* C9: when the selector returns Ok(p), the list of the returning poll was
\* not empty, held no pod in phase Pending, held exactly one pod with a
\* running container, that pod is p, and p is not in the processed set.
C9_SelectedPodIsTheOneActive ==
    pc = "PodAcquired" =>
        LET l == Unwrap(pods)
            p == Unwrap(pod_name)
        IN /\ l.ok
           /\ DOMAIN l.items # {}
           /\ \A n \in DOMAIN l.items : ~HasPhasePending(l.items[n])
           /\ {n \in DOMAIN l.items : HasRunningContainer(l.items[n])} = {p}
           /\ p \notin set_of_pods_already_processed

\* Two pods listed, one of them processed and no longer running.
C9_Witness ==
    /\ pc = "PodAcquired"
    /\ pod_name = Some("pod-b")
    /\ set_of_pods_already_processed = {"pod-a"}
    /\ DOMAIN Unwrap(pods).items = {"pod-a", "pod-b"}

\* C10 as stated: at most min(30, max_wait_seconds / 10) list calls in all.
C10_AtMostMinPolls ==
    list_calls <= Min(30, job_max_duration \div 10)

\* C10, amended: at most min(30, max_wait_seconds / 10) + 1 list calls: the
\* first one and one after each of the min(30, max_wait_seconds / 10) delays.
C10_AtMostMinPlusOnePolls ==
    list_calls <= Min(30, job_max_duration \div 10) + 1

\* A selector call that gave up after 31 list calls, for 600 seconds.
C10_Witness ==
    /\ job_max_duration = 600
    /\ list_calls = 31
    /\ pc = "Done"
    /\ result.tag = "Err"

\* A list call qualifies: it succeeded, its list is not empty and holds no
\* pending pod, exactly one of its pods has a running container, and that pod
\* was not processed yet.
Qualifies(l, processed) ==
    /\ l.ok
    /\ DOMAIN l.items # {}
    /\ \A n \in DOMAIN l.items : ~HasPhasePending(l.items[n])
    /\ Cardinality({n \in DOMAIN l.items : HasRunningContainer(l.items[n])}) = 1
    /\ \A n \in DOMAIN l.items :
          HasRunningContainer(l.items[n]) => n \notin processed

\* C11: the selector returns at the first list call that qualifies and at no
\* other: list call k + 1 returns its one running unprocessed pod when it
\* qualifies, and does not return a pod when it does not; the selector does
\* not give up while its list calls are within min(30, max_wait_seconds / 10);
\* and once it has returned after k + 1 list calls it makes no further one.
C11_ReturnsAtFirstQualifyingPoll ==
    /\ [][list_calls' = list_calls + 1 =>
            LET l == Unwrap(last_list') IN
            IF Qualifies(l, set_of_pods_already_processed)
            THEN /\ pc' = "PodAcquired"
                 /\ HasRunningContainer(l.items[Unwrap(pod_name')])
                 /\ pods' = last_list'
            ELSE pc' # "PodAcquired" /\ pod_name' = None]_vars
    /\ [](pc = "Done" => list_calls > Min(30, job_max_duration \div 10))
    /\ [][pc = "PodAcquired" => list_calls' = list_calls]_vars

\* Three list calls within a budget of three: the third one qualified.
C11_Witness ==
    /\ pc = "PodAcquired"
    /\ job_max_duration = 30
    /\ list_calls = 3
    /\ pod_name = Some("pod-a")
    /\ Qualifies(Unwrap(last_list), set_of_pods_already_processed)

\* The reference classifier: the tag a snapshot gets when a counter counts
\* only if it is greater than 0.
CounterPositive(c) == c # None /\ c[1] > 0
ReferenceTag(snapshot) ==
    IF snapshot = None THEN "NotRunning"
    ELSE IF snapshot[1].status = None THEN "Running"
    ELSE IF CounterPositive(snapshot[1].status[1].succeeded) THEN "Success"
    ELSE IF CounterPositive(snapshot[1].status[1].failed) THEN "Failure"
    ELSE "Running"

\* C12: job_status gives every optional job snapshot the tag of the reference
\* classifier: NotRunning for an absent job, Success when succeeded > 0,
\* Failure when failed > 0 and succeeded is not, Running otherwise (counters
\* unset or set to 0, or no status).
C12_AgreesWithReference ==
    classified # None => Unwrap(classified).tag = ReferenceTag(job)

\* The conditions of a snapshot, and the first of them of type Failed.
ConditionsOf(snapshot) ==
    IF snapshot # None /\ snapshot[1].status # None
       /\ snapshot[1].status[1].conditions # None
    THEN snapshot[1].status[1].conditions[1]
    ELSE <<>>
HasFailedCondition(snapshot) ==
    \E i \in 1..Len(ConditionsOf(snapshot)) : ConditionsOf(snapshot)[i].type_ = "Failed"
FirstFailedCondition(snapshot) ==
    LET conds == ConditionsOf(snapshot)
        i == CHOOSE k \in 1..Len(conds) :
                /\ conds[k].type_ = "Failed"
                /\ \A h \in 1..(k - 1) : conds[h].type_ # "Failed"
    IN conds[i]
TextOf(o) == IF o = None THEN "" ELSE o[1]

\* C13: a snapshot with succeeded = 1 is Success whatever its other fields; a
\* snapshot with failed = 1, no succeeded counter and no condition of type
\* Failed is Failure with empty reason and message; and a Failure of a
\* snapshot that has a condition of type Failed carries the reason and the
\* message of the first such condition of the list.
C13_SuccessWinsFailureReadsFirstFailed ==
    (classified # None /\ job # None /\ job[1].status # None) =>
        LET st == job[1].status[1]
            c == Unwrap(classified)
        IN /\ st.succeeded = Some(1) => c = StatusSuccess
           /\ (st.failed = Some(1) /\ st.succeeded = None
               /\ ~HasFailedCondition(job)) => c = StatusFailure("", "")
           /\ (c.tag = "Failure" /\ HasFailedCondition(job)) =>
                  /\ c.reason = TextOf(FirstFailedCondition(job).reason)
                  /\ c.message = TextOf(FirstFailedCondition(job).message)

\* Two conditions of type Failed: the reason is the one of the first.
C13_Witness ==
    /\ job = JobWith(None, Some(1),
                     Some(<<[type_ |-> "Failed", reason |-> Some("BackoffLimitExceeded"),
                             message |-> Some("m1")],
                            [type_ |-> "Failed", reason |-> None, message |-> None]>>))
    /\ classified = Some(StatusFailure("BackoffLimitExceeded", "m1"))

\* C14: is_job_terminated is true of a snapshot exactly when job_status of
\* the snapshot is Success or Failure; it is false for an absent job and for
\* a running one.
C14_TerminatedIffSuccessOrFailure ==
    terminated # None =>
        /\ Unwrap(terminated) = (Unwrap(classified).tag \in {"Success", "Failure"})
        /\ job = None => Unwrap(terminated) = FALSE
        /\ Unwrap(classified).tag = "Running" => Unwrap(terminated) = FALSE

C14_Witness ==
    /\ terminated = Some(TRUE)
    /\ Unwrap(classified).tag = "Failure"
    /\ job = JobWith(None, Some(1), None)

\* C15: the wait for the job-level terminal condition of a one-shot run is
\* bounded: once the run waits for the job it leaves that wait, even if the
\* job never reaches Success or Failure or is deleted after the existence
\* check.
C15_JobWaitEnds ==
    (pc = "AwaitingJobTermination") ~> (pc # "AwaitingJobTermination")

\* C16: when the job does not exist at the existence check that follows the
\* sentinel write, the run returns a job error at once: it does not enter the
\* wait for the job, and it does not start another cycle, whatever is left of
\* the restart budget.
C16_MissingJobIsAnError ==
    [][(pc = "GetJob" /\ watched_job.job = None /\ pc' # "GetJob") =>
          /\ pc' = "Done"
          /\ result' = ErrResult("JobError", <<"Cannot get job">>)
          /\ job_creation_iterations' = job_creation_iterations
          /\ cycle_steps' = cycle_steps
          /\ attempt_statuses' = attempt_statuses]_vars

\* The job was missing in the first cycle of a run with one restart left.
C16_Witness ==
    /\ pc = "Done"
    /\ watched_job = NoJobWatch
    /\ job_max_nb_restart = 1
    /\ job_creation_iterations = 0
    /\ result = ErrResult("JobError", <<"Cannot get job">>)
    /\ cycle_steps # <<>>
    /\ cycle_steps[Len(cycle_steps)] = "SignalingTermination"

\* Everything run_job holds and has done, the log of the output apart.
AllButOutputLog ==
    <<cfgVars, abort, cronVars, job_creation_iterations,
      set_of_pods_already_processed, pod_name, list_calls, pods, watched_pod,
      watched_job, result, helm_calls, attempt_statuses, select_branch,
      delete_attempted, abort_status>>

\* C17: the outcome of a one-shot run does not depend on the captured output.
\* Whether the output is valid, unparsable or unreadable, the extraction step
\* returns nothing, changes only the log and goes on to the sentinel write,
\* leaving everything else the run holds as it was; and no later step of the
\* cycle touches the log, so the sentinel write, the wait for the job and the
\* result are those of any other output.
C17_OutputOnlyLogged ==
    /\ [][(pc = "ExtractingOutput" /\ pc' # "ExtractingOutput") =>
            /\ pc' = "SignalingTermination"
            /\ result' = NoResult
            /\ output_log' \in {"info", "warning", "core_configuration"}
            /\ cycle_steps' = Append(cycle_steps, "ExtractingOutput")
            /\ UNCHANGED AllButOutputLog]_vars
    /\ [][(pc \in {"SignalingTermination", "GetJob", "AwaitingJobTermination"}) =>
            (output_log' = output_log \/ pc' = "AwaitingPod")]_vars
    /\ [](result.err # "InvalidJobOutput")

\* A run whose output could not be parsed went through the sentinel write and
\* the wait for the job, and returned Ok.
C17_Witness ==
    /\ pc = "Done"
    /\ output_log = "warning"
    /\ cycle_steps = CycleOrder
    /\ result = OkResult

\* The run is one of a force-triggered cron job / of a cron job that is not.
IsForceTriggered == schedule = "Cron" /\ is_force_trigger
IsPlainCron == schedule = "Cron" /\ ~is_force_trigger

\* The last call to the chart deployer was a delete that failed.
UninstallFailed ==
    /\ helm_calls # <<>>
    /\ helm_calls[Len(helm_calls)] = [call |-> "on_delete", ok |-> FALSE]

\* C18 as stated: once the wait of a force-triggered cron run ended with a
\* status, the run returns Ok exactly when the status is Success or Running
\* (the timeout), and an error only for Failure and NotRunning.
C18_OkOnSuccessOrTimeout ==
    (pc = "Done" /\ IsForceTriggered /\ cron_status # None) =>
        (result = OkResult <=> Unwrap(cron_status) \in {"Success", "Running"})

\* C18, amended: the status decides the result of a force-triggered cron run
\* only if the CronJob did not have to be uninstalled or its uninstall
\* succeeded: then Success and the timeout (Running) give Ok, Failure and
\* NotRunning give a job error. When the uninstall fails the run returns the
\* error of the uninstall, whatever the status. An error of the wait itself
\* is returned before any status is matched.
C18_OkUnlessUninstallFails ==
    /\ (pc = "Done" /\ IsForceTriggered /\ cron_status # None) =>
          IF UninstallFailed
          THEN result = ErrResult("HelmError", <<"on_delete">>)
          ELSE /\ Unwrap(cron_status) \in {"Success", "Running"} =>
                      result = OkResult
               /\ Unwrap(cron_status) \in {"Failure", "NotRunning"} =>
                      result.tag = "Err" /\ result.err = "JobError"
    /\ (IsForceTriggered
        /\ result = ErrResult("JobError", <<"Cannot find job for terminated pod">>)) =>
          cron_status = None /\ cronjob_result = None

\* The wait timed out and the run returned Ok.
C18_Witness ==
    /\ pc = "Done"
    /\ IsForceTriggered
    /\ cron_status = Some("Running")
    /\ result = OkResult

\* C19: when a force-triggered cron run has returned, with Ok or with any
\* error, the CronJob is installed exactly if it was installed before the run.
C19_CronJobRestored ==
    (pc = "Done" /\ IsForceTriggered) => cronjob_installed = cronjob_was_installed

\* C20: the run of a cron job that is not force triggered is one call of the
\* chart deployer's create: no delete before it, no pod selection, no output
\* extraction, no sentinel write, no wait on a job; it returns at once, Ok
\* exactly when the install succeeded.
C20_PlainCronOnlyInstalls ==
    /\ [][(IsPlainCron /\ pc = "Idle" /\ pc' # "Idle") =>
            /\ pc' = "Done"
            /\ Len(helm_calls') = 1
            /\ helm_calls'[1].call = "on_create"
            /\ result' = OkResult <=> helm_calls'[1].ok]_vars
    /\ [](IsPlainCron =>
            /\ pc \in {"Idle", "Done"}
            /\ \A i \in 1..Len(helm_calls) : helm_calls[i].call = "on_create"
            /\ Len(helm_calls) <= 1
            /\ list_calls = 0
            /\ pod_name = None
            /\ set_of_pods_already_processed = {}
            /\ cycle_steps = <<>>
            /\ output_log = "none"
            /\ attempt_statuses = <<>>
            /\ watched_pod = NoWatch
            /\ watched_job = NoJobWatch
            /\ cron_status = None)

C20_Witness ==
    /\ IsPlainCron
    /\ pc = "Done"
    /\ helm_calls = <<[call |-> "on_create", ok |-> TRUE]>>
    /\ result = OkResult

\* -------------------------------------------------- claims on the handlers

RunPhases == {"RunJobPreRun", "RunJobTask", "RunJobPostRun"}
DeletePhases == {"DeleteJobPreRun", "DeleteJobTask", "DeleteJobPostRun"}
PhasesOf(flow) == IF flow = "run_job" THEN RunPhases ELSE DeletePhases

Invoked(handler) == svc_action = Some(handler)

\* The invocation executes the flow named and no other.
OnlyFlow(flow) ==
    \/ dpc \in PhasesOf(flow) /\ flows = <<>>
    \/ /\ dpc = "Returned"
       /\ Len(flows) = 1
       /\ flows[1].flow = flow
       /\ handler_result = flows[1].result

\* The invocation returned Ok and touched neither the cluster nor a registry.
NoOperation ==
    /\ dpc = "Returned"
    /\ handler_result = OkResult
    /\ flows = <<>>
    /\ ops = <<>>
    /\ last_image = image_at_start

HasOp(op) == \E i \in 1..Len(ops) : ops[i].op = op
HasFailedOp(op) == \E i \in 1..Len(ops) : ops[i].op = op /\ ~ops[i].ok
HasOpOn(op, arg) == \E i \in 1..Len(ops) : ops[i].op = op /\ ops[i].arg = arg
LastFlow == flows[Len(flows)]

\* C21: on_create executes the run flow when a force trigger is requested or
\* the schedule is OnStart or Cron, and for OnPause and OnDelete without force
\* trigger returns Ok having done nothing; on_pause executes the teardown flow
\* for Cron, the run flow for OnPause, and does nothing for OnStart and
\* OnDelete.
C21_CreateAndPauseDispatch ==
    /\ Invoked("on_create") =>
          IF is_force_trigger \/ schedule \in {"OnStart", "Cron"}
          THEN OnlyFlow("run_job")
          ELSE NoOperation
    /\ Invoked("on_pause") =>
          IF schedule = "Cron" THEN OnlyFlow("delete_job")
          ELSE IF schedule = "OnPause" THEN OnlyFlow("run_job")
          ELSE NoOperation

C21_Witness ==
    /\ Invoked("on_create")
    /\ is_force_trigger
    /\ schedule = "OnDelete"
    /\ dpc = "Returned"
    /\ flows = <<Flow("run_job", OkResult)>>

\* C22: on_delete of an OnDelete job executes the run flow first and the
\* teardown flow only after the run flow returned Ok; an error of the run flow
\* is what on_delete returns, with no teardown. For every other schedule
\* on_delete executes the teardown flow alone.
C22_DeleteRunsThenTearsDown ==
    Invoked("on_delete") =>
        IF schedule = "OnDelete"
        THEN \/ dpc \in RunPhases /\ flows = <<>>
             \/ /\ flows # <<>>
                /\ flows[1].flow = "run_job"
                /\ IF flows[1].result.tag = "Ok"
                   THEN \/ dpc \in DeletePhases /\ Len(flows) = 1
                        \/ /\ dpc = "Returned"
                           /\ Len(flows) = 2
                           /\ flows[2].flow = "delete_job"
                           /\ handler_result = flows[2].result
                   ELSE /\ dpc = "Returned"
                        /\ Len(flows) = 1
                        /\ handler_result = flows[1].result
                        /\ ~HasOp("helm.on_delete")
        ELSE OnlyFlow("delete_job")

C22_Witness ==
    /\ Invoked("on_delete")
    /\ schedule = "OnDelete"
    /\ dpc = "Returned"
    /\ Len(flows) = 2
    /\ flows[1] = Flow("run_job", OkResult)
    /\ flows[2].flow = "delete_job"

\* C23: on_restart returns an error for every schedule and every state of the
\* cluster, and performs no operation on the cluster or a registry.
C23_RestartAlwaysFails ==
    Invoked("on_restart") =>
        /\ dpc = "Returned"
        /\ handler_result.tag = "Err"
        /\ flows = <<>>
        /\ ops = <<>>
        /\ last_image = image_at_start

C23_Witness ==
    /\ Invoked("on_restart")
    /\ schedule = "Cron"
    /\ last_image # None
    /\ handler_result.err = "CannotRestartService"

\* C24: when the eviction of the cached image or the deletion of a container
\* repository fails in a post-run phase, the flow still returns Ok, and so does
\* the handler when that flow was its last.
C24_CleanupErrorsSwallowed ==
    (HasFailedOp("delete_cached_image") \/ HasFailedOp("delete_repository")) =>
        /\ flows # <<>>
        /\ LastFlow.result = OkResult
        /\ dpc = "Returned" => handler_result = OkResult

C24_Witness ==
    /\ dpc = "Returned"
    /\ handler_result = OkResult
    /\ flows # <<>>
    /\ LastFlow.flow = "run_job"
    /\ HasFailedOp("delete_cached_image")

\* C25: after the post-run phase of the teardown flow of a job built from
\* source, the deletion of the repository of the job has been attempted, also
\* when the deletion of the shared repository failed, and the deletion of the
\* shared repository has been attempted exactly if
\* should_delete_shared_registry() holds.
C25_RepositoriesDeleted ==
    (/\ image_source = "Build"
     /\ dpc = "Returned"
     /\ flows # <<>>
     /\ LastFlow = Flow("delete_job", OkResult)) =>
        /\ HasOpOn("delete_repository", Some("legacy_repository_name"))
        /\ HasOpOn("delete_repository", Some("shared_repository_name"))
               <=> delete_shared

C25_Witness ==
    /\ image_source = "Build"
    /\ dpc = "Returned"
    /\ delete_shared
    /\ Len(ops) >= 2
    /\ ops[Len(ops) - 1] =
           Op("delete_repository", Some("shared_repository_name"), FALSE)
    /\ ops[Len(ops)].arg = Some("legacy_repository_name")

\* The handler ran the teardown flow and nothing else.
TeardownOnly(inv) ==
    \/ inv.handler = "on_delete" /\ schedule # "OnDelete"
    \/ inv.handler = "on_pause" /\ schedule = "Cron"

C27_SnapshotPrecedesMutation ==
    /\ \A i \in 1..Len(ops) :
          ops[i].op \in {"run_job.task", "helm.on_delete"} =>
              \E j \in 1..(i - 1) :
                  ops[j] = Op("get_last_deployed_image", image_at_start, TRUE)
    /\ task_ctx # None =>
          Unwrap(task_ctx) = [last_deployed_image |-> image_at_start]
    /\ \A i \in 1..Len(ops) :
          ops[i].op = "delete_cached_image" => ops[i].arg = image_at_start

C27_Witness ==
    /\ HasOpOn("delete_cached_image", Some("image-old"))
    /\ HasOpOn("run_job.task", Some("image-new"))
    /\ last_image = Some("image-new")

\* The run flow of a job whose image comes from a registry has returned.
RunFlowReturned ==
    /\ image_source = "Registry"
    /\ dpc = "Returned"
    /\ flows # <<>>
    /\ LastFlow.flow = "run_job"
    /\ run_concluded # None

\* C28 as stated: the run flow evicts the previous image from the cache once
\* the run phase has concluded, with success or with failure.
C28_EvictsAfterAnyOutcome ==
    RunFlowReturned => HasOp("delete_cached_image")

\* C28: the run flow evicts the previous image from the cache strictly after
\* the run phase has concluded, and only when it concluded with success: after
\* a failed run phase nothing is evicted.
C28_EvictsAfterSuccessOnly ==
    /\ \A i \in 1..Len(ops) :
          ops[i].op = "delete_cached_image" =>
              \E j \in 1..(i - 1) :
                  ops[j].op \in {"run_job.task", "helm.on_delete"} /\ ops[j].ok
    /\ RunFlowReturned =>
          (HasOp("delete_cached_image") <=> run_concluded = Some(TRUE))

C28_Witness ==
    /\ RunFlowReturned
    /\ run_concluded = Some(FALSE)
    /\ HasOp("run_job.task")
    /\ ~HasOp("delete_cached_image")
    /\ handler_result.tag = "Err"

\* ------------------------------------------- claims on the processed pods

\* The steps of a cycle from the wait on the container of the pod onwards.
WaitSteps ==
    {"AwaitingContainerTermination", "CheckAbort", "ExtractingOutput",
     "SignalingTermination", "GetJob", "AwaitingJobTermination"}

\* C29: within a one-shot run the set of processed pods only grows; the pod a
\* selection returns is not in the set when it is returned, so no pod is
\* selected in two cycles; and the pod of the cycle is in the set from before
\* the wait on its container until the end of the cycle.
C29_ProcessedSetGrows ==
    /\ [][set_of_pods_already_processed
              \subseteq set_of_pods_already_processed']_vars
    /\ [][(pc = "AwaitingPod" /\ pc' = "PodAcquired") =>
              /\ Unwrap(pod_name') \notin set_of_pods_already_processed
              /\ Cardinality(set_of_pods_already_processed)
                     = job_creation_iterations]_vars
    /\ [][(pc = "PodAcquired" /\ pc' # "PodAcquired") =>
              /\ pc' = "AwaitingContainerTermination"
              /\ set_of_pods_already_processed' =
                     set_of_pods_already_processed \cup {Unwrap(pod_name)}]_vars
    /\ [](pc \in WaitSteps =>
              /\ pod_name # None
              /\ Unwrap(pod_name) \in set_of_pods_already_processed
              /\ Cardinality(set_of_pods_already_processed)
                     = job_creation_iterations + 1)

C29_Witness ==
    /\ is_job(schedule)
    /\ pc = "AwaitingContainerTermination"
    /\ job_creation_iterations = 1
    /\ Cardinality(set_of_pods_already_processed) = 2
    /\ pod_name # None
    /\ Unwrap(pod_name) \in set_of_pods_already_processed

\* ------------------------------------------------- claims on the parser

\* The payload without the member of key.
WithoutKey(payload, key) ==
    [payload EXCEPT !.members[key] = None]

IsObjectMember(payload, key) ==
    /\ payload.members[key] # None
    /\ Unwrap(payload.members[key]).kind = "object"

IsNonObjectMember(payload, key) ==
    /\ payload.members[key] # None
    /\ Unwrap(payload.members[key]).kind # "object"

\* C30: for a payload the parser accepts, an entry without sensitive is
\* parsed with sensitive false and an entry without description with the
\* empty description; a top-level member that is not a JSON object is left out
\* of the result of the successful call, and every other key is in the
\* result, with the same content, exactly as it is when the member is removed
\* from the payload.
C30_DefaultsAndDroppedMembers ==
    (json # None /\ job_output_variables # None
        /\ Unwrap(job_output_variables).ok) =>
        LET payload == Unwrap(json)
            out == Unwrap(job_output_variables)
        IN  /\ payload.syntax = "object"
            /\ \A key \in OutputKeys :
                  /\ IsObjectMember(payload, key) =>
                        LET entry == Unwrap(payload.members[key]).fields IN
                        /\ out.variables[key] # None
                        /\ entry.sensitive = None =>
                               Unwrap(out.variables[key]).sensitive = FALSE
                        /\ entry.description = None =>
                               Unwrap(out.variables[key]).description = ""
                  /\ IsNonObjectMember(payload, key) =>
                        /\ out.variables[key] = None
                        /\ \A sibling \in OutputKeys \ {key} :
                              out.variables[sibling] =
                                  serialize_job_output(WithoutKey(payload, key))
                                      .variables[sibling]

C30_Witness ==
    /\ json = Some(Payload("object",
                Members(Some(JsonObject(Fields(Some(JsonString("bar")),
                                               None, None))),
                        Some(NonObject("string")),
                        None)))
    /\ job_output_variables =
           Some(SerializeOk(
                Members(Some(JobOutputVariable("bar", FALSE, "")), None, None)))

\* The entries of the payload that the parser keeps, when it returned Ok.
Parsed(key) ==
    /\ json # None
    /\ job_output_variables # None
    /\ Unwrap(job_output_variables).ok
    /\ IsObjectMember(Unwrap(json), key)

EntryOf(key) == Unwrap(Unwrap(json).members[key]).fields
VariableOf(key) == Unwrap(Unwrap(job_output_variables).variables[key])

\* C31: when the member value of an entry is a JSON string, the parsed value
\* is the content of that string, so that writing the parsed value back as a
\* JSON string gives the member again; when it is a JSON number, the parsed
\* value is the JSON text of the number (123 gives "123", 123.456 gives
\* "123.456").
C31_StringAndNumberValues ==
    \A key \in OutputKeys :
        (Parsed(key) /\ EntryOf(key).value # None) =>
            LET value == Unwrap(EntryOf(key).value) IN
            /\ value.kind = "string" =>
                  /\ VariableOf(key).value = value.str
                  /\ JsonString(VariableOf(key).value) = value
            /\ value.kind = "number" =>
                  /\ VariableOf(key).value = value.json
                  /\ JsonNumber(VariableOf(key).value) = value
            /\ value = JsonNumber("123") => VariableOf(key).value = "123"
            /\ value = JsonNumber("123.456") =>
                  VariableOf(key).value = "123.456"

C31_Witness ==
    /\ Parsed("foo")
    /\ Parsed("foo_2")
    /\ EntryOf("foo").value = Some(JsonString("bar"))
    /\ VariableOf("foo").value = "bar"
    /\ EntryOf("foo_2").value = Some(JsonNumber("123.456"))
    /\ VariableOf("foo_2").value = "123.456"

\* C40: an entry without the member value is kept and its parsed value is
\* "null", the JSON text of null; a member sensitive that is not a JSON
\* boolean gives false; a member description that is not a JSON string gives
\* the empty description.
C40_MissingAndMistypedMembers ==
    \A key \in OutputKeys :
        Parsed(key) =>
            /\ Unwrap(job_output_variables).variables[key] # None
            /\ EntryOf(key).value = None => VariableOf(key).value = "null"
            /\ (EntryOf(key).sensitive # None
                /\ Unwrap(EntryOf(key).sensitive).kind # "bool") =>
                   VariableOf(key).sensitive = FALSE
            /\ (EntryOf(key).description # None
                /\ Unwrap(EntryOf(key).description).kind # "string") =>
                   VariableOf(key).description = ""

C40_Witness ==
    /\ Parsed("foo")
    /\ EntryOf("foo") =
           Fields(None, Some(JsonString("yes")), Some(JsonNumber("1")))
    /\ VariableOf("foo") = JobOutputVariable("null", FALSE, "")

\* C32: serialize_job_output returns an error exactly when the payload is not
\* valid JSON or is not a JSON object; for every payload that is a JSON object
\* it returns Ok.
C32_ErrOnlyForNonObject ==
    (json # None /\ job_output_variables # None) =>
        (Unwrap(job_output_variables).ok <=> Unwrap(json).syntax = "object")

\* The map handed to the logger, as a set of pairs.
Reported == Unwrap(deserialized_json_hashmap_with_uppercase_keys)

\* C33: every key of the map handed to the logger is the upper-cased form of
\* a key of the parsed map and carries the value, sensitive and description of
\* that entry unchanged; every parsed key is reported under its upper-cased
\* form; foo and foo_2 are reported as FOO and FOO_2.
C33_KeysUppercased ==
    deserialized_json_hashmap_with_uppercase_keys # None =>
        LET variables == Unwrap(job_output_variables).variables IN
        /\ \A p \in Reported :
              /\ p.key \in {"FOO", "FOO_2"}
              /\ \E k \in OutputKeys :
                    /\ variables[k] # None
                    /\ p.key = to_uppercase(k)
                    /\ p.variable = Unwrap(variables[k])
        /\ \A k \in OutputKeys :
              variables[k] # None =>
                  \E p \in Reported : p.key = to_uppercase(k)
        /\ (variables["foo"] # None /\ variables["Foo"] = None) =>
              Pair("FOO", Unwrap(variables["foo"])) \in Reported
        /\ variables["foo_2"] # None =>
              Pair("FOO_2", Unwrap(variables["foo_2"])) \in Reported

C33_Witness ==
    /\ json = Some(Payload("object",
                Members(Some(JsonObject(Fields(Some(JsonString("bar")),
                                               Some(JsonBool(TRUE)), None))),
                        Some(JsonObject(Fields(Some(JsonNumber("123")),
                                               None, None))),
                        None)))
    /\ deserialized_json_hashmap_with_uppercase_keys =
           Some({Pair("FOO", JobOutputVariable("bar", TRUE, "")),
                 Pair("FOO_2", JobOutputVariable("123", FALSE, ""))})

\* ------------------------------------------ claims on the one-off job name

\* C34: the name of the one-off job of a force-triggered cron is the first
\* min(49, len) characters of the kube name followed by "-force-trigger"; it
\* is never longer than 63 characters; the TTL after completion is 10 seconds.
C34_ForceTriggerNameFits ==
    job_to_start # None =>
        LET name == Unwrap(job_to_start).name
            kept == IF Len(kube_name) < 49 THEN Len(kube_name) ELSE 49
        IN  /\ Len(name) = kept + 14
            /\ Len(name) <= 63
            /\ \A i \in 1..kept : name[i] = kube_name[i]
            /\ \A i \in 1..14 : name[kept + i] = ForceTriggerSuffix[i]
            /\ Unwrap(job_to_start).ttl_seconds_after_finished = Some(10)

C34_Witness ==
    /\ job_to_start # None
    /\ Len(kube_name) > 49
    /\ Len(Unwrap(job_to_start).name) = 63

\* ------------------------------------------- claims on the container check

\* C36: job_pod_container_status_is_terminated(pod, name) is true exactly
\* when the pod is present, has a status with container statuses, and the
\* status of the container called name has a terminated state; a terminated
\* state of another container does not make it true.
C36_OnlyNamedContainerCounts ==
    job_container_terminated # None =>
        (Unwrap(job_container_terminated) <=>
            /\ job_pod # None
            /\ Unwrap(job_pod) # None
            /\ Unwrap(Unwrap(job_pod)).container_statuses # None
            /\ job_container_name \in ContainerNames
            /\ Unwrap(Unwrap(Unwrap(job_pod)).container_statuses)
                   [job_container_name] = "terminated")

C36_Witness ==
    /\ job_container_terminated = Some(FALSE)
    /\ job_container_name = JobContainer
    /\ job_pod = Some(Some([phase |-> Some("Running"),
                            container_statuses |->
                                Some(Containers("running", "terminated"))]))

\* ------------------------------------- claims on the end of a one-shot cycle

\* The steps of a cycle that follow the read of the abort status at line 262.
StepsAfterAbortCheck ==
    {"ExtractingOutput", "SignalingTermination", "GetJob",
     "AwaitingJobTermination"}

\* C35: a forced cancellation that the read of line 262 did not see does not
\* interrupt the cycle: no step after that read returns the cancellation
\* error, whatever the abort status has become, and when the job then reports
\* Success the run returns Ok.
C35_JobWaitNotCancellable ==
    /\ [][(is_job(schedule) /\ pc \in StepsAfterAbortCheck /\ pc' # pc) =>
              result' # CancelResult]_vars
    /\ [][(/\ is_job(schedule)
           /\ pc = "AwaitingJobTermination"
           /\ abort = "ForceRequested"
           /\ Len(attempt_statuses') = Len(attempt_statuses) + 1
           /\ attempt_statuses'[Len(attempt_statuses')] = "Success") =>
              /\ pc' = "Done"
              /\ result' = OkResult]_vars

\* The run returned Ok although the cancellation was forced after line 262.
C35_Witness ==
    /\ is_job(schedule)
    /\ pc = "Done"
    /\ result = OkResult
    /\ abort = "ForceRequested"
    /\ abort_status = Some("None")
    /\ attempt_statuses # <<>>
    /\ attempt_statuses[Len(attempt_statuses)] = "Success"

\* C37: in a one-shot run the status matched after the wait on the job is
\* Success or Failure, so the unreachable!() arm is never executed.
C37_UnreachableArmNeverRuns ==
    is_job(schedule) =>
        /\ result.err # "Panic"
        /\ \A i \in 1..Len(attempt_statuses) :
              attempt_statuses[i] \in {"Success", "Failure"}

C37_Witness ==
    /\ is_job(schedule)
    /\ pc = "Done"
    /\ Len(attempt_statuses) = 2
    /\ attempt_statuses[1] = "Failure"
    /\ attempt_statuses[2] = "Failure"
    /\ result.err = "JobError"

\* The chart calls of a one-shot run that reached its loop.
ChartCallsBeforeLoop ==
    <<[call |-> "on_delete", ok |-> TRUE], [call |-> "on_create", ok |-> TRUE]>>

\* C38: a one-shot run calls the chart deployer's delete once and then its
\* create once, both before the loop; inside the loop, and so in every retry
\* cycle, the chart is neither deleted nor created again.
C38_ChartCallsOnceBeforeLoop ==
    /\ [](is_job(schedule) =>
            /\ Len(helm_calls) <= 2
            /\ Len(helm_calls) >= 1 => helm_calls[1].call = "on_delete"
            /\ Len(helm_calls) = 2 => helm_calls[2].call = "on_create"
            /\ (pc \notin {"Idle", "Creating", "Done"}
                \/ job_creation_iterations > 0
                \/ attempt_statuses # <<>>) =>
                   helm_calls = ChartCallsBeforeLoop)
    /\ [][(is_job(schedule)
           /\ job_creation_iterations' = job_creation_iterations + 1) =>
              /\ helm_calls' = helm_calls
              /\ pc' = "AwaitingPod"]_vars

C38_Witness ==
    /\ is_job(schedule)
    /\ job_creation_iterations = 1
    /\ pc = "AwaitingContainerTermination"
    /\ helm_calls = ChartCallsBeforeLoop

\* C39: the step that writes the sentinel file either goes on to the check
\* that the job exists, or, when the write failed, ends the run with a job
\* error: the wait on the job is not entered, no status is matched and no
\* cycle is started, whatever is left of the restart budget.
C39_SentinelFailureReturns ==
    [][(is_job(schedule) /\ pc = "SignalingTermination" /\ pc' # pc) =>
          \/ /\ pc' = "GetJob"
             /\ result' = NoResult
          \/ /\ pc' = "Done"
             /\ result' = ErrResult("JobError", <<"Cannot create terminate file">>)
             /\ job_creation_iterations' = job_creation_iterations
             /\ attempt_statuses' = attempt_statuses
             /\ "AwaitingJobTermination" \notin
                    {cycle_steps'[i] : i \in 1..Len(cycle_steps')}]_vars

\* The write failed in the first cycle of a run with one restart left.
C39_Witness ==
    /\ is_job(schedule)
    /\ pc = "Done"
    /\ job_max_nb_restart = 1
    /\ job_creation_iterations = 0
    /\ result = ErrResult("JobError", <<"Cannot create terminate file">>)

====
